---------------------------- MODULE Spec2Model ----------------------------
(***************************************************************************)
(* A model of Dimini's live knowledge-graph engine:                        *)
(*   - the background metrics scheduler (app/graph/algorithms.py),         *)
(*   - the Neo4j graph store            (app/graph/neo4j_client.py),       *)
(*   - the transcript ingestion pipeline (app/services/graph_builder.py).  *)
(* Each component has its own next-state relation and specification; the   *)
(* variables of the other components keep their initial values.            *)
(***************************************************************************)
EXTENDS Integers, Sequences, FiniteSets, TLC

(***************************************************************************)
(* Bounds of the model.                                                    *)
(***************************************************************************)
\* calls of start_background_algorithms explored
MaxStarts == 2
\* calls of the Neo4j client explored in one behaviour
MaxStoreOps == 6
\* largest mention_count explored
MaxMentions == 3
\* calls of process_transcript_chunk explored in one behaviour
MaxCalls == 2
\* calls of ToolKGIntegration explored in one behaviour
MaxToolCalls == 3

Sessions == {"s1", "s2"}
\* the sessions whose background loops are explored
SchedSessions == {"s1"}

(***************************************************************************)
(* Program constants of the scheduler.                                     *)
(***************************************************************************)
ColdIterations == 20
WarmIterations == 5
MaxRetries == 3

(***************************************************************************)
(* Program constants of the graph store.  Scores and metrics are in        *)
(* hundredths: 0.15 is 15, 1.0 is 100.                                     *)
(***************************************************************************)
EmbeddingDimension == 1536
PagerankSeed == 15

\* settings.SIMILARITY_THRESHOLD, in hundredths
SIMILARITY_THRESHOLD == 50

VARIABLES
    active_sessions,  \* GraphAlgorithms.active_sessions
    tasks,            \* the asyncio tasks created so far, in creation order
    afterStop         \* history: computations run for a session since its stop
                      \*          (0, 1, or 2 for "two or more")

schedVars == <<active_sessions, tasks, afterStop>>

VARIABLES
    entities,         \* Neo4j: the Entity nodes, by <<session_id, node_id>>
    relationships,    \* Neo4j: the SIMILAR_TO relationships, in creation order
    lastOp,           \* history: the latest Neo4j client call and its result
    storeOps          \* Neo4j client calls made so far (bounded)

neoVars == <<entities, relationships, lastOp, storeOps>>

VARIABLES
    graphnode,        \* Prisma: the rows of db.graphnode, in creation order
    graphedge,        \* Prisma: the rows of db.graphedge, in creation order
    calls             \* the process_transcript_chunk calls made so far

builderVars == <<graphnode, graphedge, calls>>

VARIABLES
    toolCall,         \* history: the latest ToolKGIntegration call and its outcome
    toolCalls         \* ToolKGIntegration calls made so far (bounded)

kgVars == <<toolCall, toolCalls>>

VARIABLES
    cosineCall        \* history: the latest cosine_similarity call and its result

linkerVars == <<cosineCall>>

VARIABLES
    session,          \* Prisma: the rows of db.session, by id
    requests          \* the session API requests made so far

apiVars == <<session, requests>>

VARIABLES
    transcript,       \* Prisma: the transcript column of db.session, by session id
    updates           \* the update_transcript requests made so far

transcriptVars == <<transcript, updates>>

VARIABLES
    client_sessions,  \* WebSocketManager.client_sessions
    session_clients,  \* WebSocketManager.session_clients
    sockets,          \* the Socket.IO server: the state of each connection
    joins             \* the join_session calls made so far

wsVars == <<client_sessions, session_clients, sockets, joins>>

VARIABLES
    pending_context_update,  \* HumeService.pending_context_update
    contextCalls             \* the queue_context_update tasks created so far

humeVars == <<pending_context_update, contextCalls>>

restVars == <<transcriptVars, wsVars, humeVars>>

vars == <<schedVars, neoVars, builderVars, kgVars, linkerVars, apiVars, restVars>>

Tiers == {"pagerank", "betweenness"}

(***************************************************************************)
(* update_pagerank_streaming: the parameters handed to gds.pageRank.stream *)
(***************************************************************************)
update_pagerank_streaming_always_cold(is_first_run) ==
    [algo |-> "pagerank", max_iterations |-> ColdIterations, seed_property |-> "None"]

update_pagerank_streaming(is_first_run) ==
    [algo |-> "pagerank",
     max_iterations |-> IF is_first_run THEN ColdIterations ELSE WarmIterations,
     seed_property |-> IF is_first_run THEN "None" ELSE "pagerank"]

\* update_betweenness_streaming: no iteration count, no seed; the call
\* catches every exception of the query itself and returns 0.
update_betweenness_streaming ==
    [algo |-> "betweenness", max_iterations |-> 0, seed_property |-> "None"]

\* whether a computation raises into the loop, given that the query failed
PagerankRaises(queryFails) == queryFails
BetweennessRaises(queryFails) == FALSE

\* the backoff before retry number attempt (0-based)
RetryDelayLinear(tier, attempt) == attempt + 1

RetryDelay(tier, attempt) ==
    IF tier = "pagerank" THEN 2 ^ attempt ELSE 5 * (attempt + 1)

\* A task: its session and tier, its position (pc, attempt) and its history:
\*   ncalls   PageRank computations made: 0, 1, or 2 for "two or more"
\*   lastCall the parameters of its latest PageRank computation
\*   retries  the retry computations made: the wait before each, and its outcome
\*   stale    "no", or stop was called for its session after it was created:
\*            "unborn" before its first step, "yes" after it
NoCall == [algo |-> "none", max_iterations |-> 0, seed_property |-> "None"]

NewTask(s, tier) ==
    [sid |-> s, tier |-> tier, pc |-> "created", attempt |-> 0,
     ncalls |-> 0, lastCall |-> NoCall, retries |-> <<>>, stale |-> "no"]

UpTo2(n) == IF n < 2 THEN n + 1 ELSE 2

\* history bookkeeping of one computation by task record task; only the
\* parameters of the PageRank calls are captured
Called(task, call) ==
    IF task.tier = "pagerank"
    THEN [task EXCEPT !.ncalls = UpTo2(@), !.lastCall = call]
    ELSE task

TaskIds == DOMAIN tasks

\* history: a task is stale once its session was stopped after its creation
FreshTasks(s, tier) ==
    {t \in TaskIds : tasks[t].sid = s /\ tasks[t].tier = tier /\ tasks[t].stale = "no"}

\* history: the consecutive start calls for s with no stop since
startsInRow(s) == Cardinality(FreshTasks(s, "pagerank"))

\* history: the last scheduler call for s was a stop
stopped(s) == (\E t \in TaskIds : tasks[t].sid = s) /\ startsInRow(s) = 0

\* history bookkeeping of one computation for session s by a loop of tier
CountAfterStop(s, tier) ==
    IF stopped(s)
    THEN [afterStop EXCEPT ![s][tier] = UpTo2(@)]
    ELSE afterStop

(***************************************************************************)
(* start_background_algorithms: two create_task calls, no guard.           *)
(***************************************************************************)
StartBackgroundAlgorithms(s) ==
    /\ Len(tasks) + 2 <= 2 * MaxStarts
    /\ tasks' = tasks \o <<NewTask(s, "pagerank"), NewTask(s, "betweenness")>>
    /\ afterStop' = [afterStop EXCEPT ![s] = [pagerank |-> 0, betweenness |-> 0]]
    /\ UNCHANGED active_sessions

(***************************************************************************)
(* stop_background_algorithms: remove the id from the set if present.      *)
(* set.remove raises KeyError for an element that is absent.               *)
(***************************************************************************)
stop_without_membership_test(active, s) ==
    [raised |-> s \notin active, active |-> active \ {s}]

stop_background_algorithms(active, s) ==
    IF s \in active
    THEN [raised |-> FALSE, active |-> active \ {s}]
    ELSE [raised |-> FALSE, active |-> active]

StopBackgroundAlgorithms(s) ==
    /\ active_sessions' = stop_background_algorithms(active_sessions, s).active
    /\ afterStop' = IF stopped(s) THEN afterStop
                    ELSE [afterStop EXCEPT ![s] = [pagerank |-> 0, betweenness |-> 0]]
    /\ tasks' = [t \in TaskIds |->
                    IF tasks[t].sid = s /\ tasks[t].stale = "no"
                    THEN [tasks[t] EXCEPT
                            !.stale = IF tasks[t].pc = "created" THEN "unborn" ELSE "yes"]
                    ELSE tasks[t]]

(***************************************************************************)
(* First steps of the two tasks of one start call, each up to its first    *)
(* asyncio.sleep.  create_task queues them back to back and the event loop *)
(* runs its ready queue in order, so nothing runs between them, and tasks  *)
(* of an earlier start call begin first.  update_pagerank_streaming has no *)
(* suspension point of its own (the driver call is synchronous).           *)
(***************************************************************************)
\* pagerank_background_task up to the first sleep: the new task record
PagerankBegin(task, queryFails) ==
    \* the first run is outside the try block: a failure ends the task
    [Called(task, update_pagerank_streaming(TRUE)) EXCEPT
        !.pc = IF PagerankRaises(queryFails) THEN "crashed" ELSE "sleeping"]

\* betweenness_background_task up to the first sleep: the new task record
BetweennessBegin(task, active) ==
    [task EXCEPT !.pc = IF task.sid \in active THEN "sleeping" ELSE "done"]

TasksBegin(t, queryFails) ==
    LET s == tasks[t].sid
        active == active_sessions \cup {s}
    IN /\ tasks[t].pc = "created"
       /\ tasks[t].tier = "pagerank"
       /\ \A u \in TaskIds : u < t => tasks[u].pc # "created"
       /\ active_sessions' = active
       /\ afterStop' = CountAfterStop(s, "pagerank")
       /\ tasks' = [tasks EXCEPT
              ![t] = PagerankBegin(@, queryFails),
              ![t + 1] = BetweennessBegin(@, active)]

(***************************************************************************)
(* A loop wakes from asyncio.sleep(interval): membership check, then one   *)
(* computation, then the while condition and the next sleep.               *)
(***************************************************************************)
Computation(tier) ==
    IF tier = "pagerank" THEN update_pagerank_streaming(FALSE)
    ELSE update_betweenness_streaming

Raises(tier, queryFails) ==
    IF tier = "pagerank" THEN PagerankRaises(queryFails)
    ELSE BetweennessRaises(queryFails)

FinallyClearsAll(tier, s, active) ==
    IF tier = "pagerank" THEN {} ELSE active

\* the finally block of pagerank_background_task; the betweenness task has none
Finally(tier, s, active) ==
    IF tier = "pagerank" THEN active \ {s} ELSE active

TaskWakeExit(t) ==
    LET s == tasks[t].sid
    IN /\ tasks[t].pc = "sleeping"
       /\ s \notin active_sessions
       /\ tasks' = [tasks EXCEPT ![t].pc = "done"]
       /\ active_sessions' = Finally(tasks[t].tier, s, active_sessions)
       /\ UNCHANGED afterStop

TaskWakeTick(t, queryFails) ==
    LET s == tasks[t].sid
        tier == tasks[t].tier
    IN /\ tasks[t].pc = "sleeping"
       /\ s \in active_sessions
       /\ afterStop' = CountAfterStop(s, tier)
       /\ tasks' = [tasks EXCEPT
              ![t] = [Called(@, Computation(tier)) EXCEPT
                        !.pc = IF Raises(tier, queryFails)
                               THEN "retry_sleep" ELSE "sleeping",
                        !.attempt = 0]]
       /\ UNCHANGED active_sessions

(***************************************************************************)
(* The except branch: for attempt in range(3): sleep, recompute, break on  *)
(* success.  No membership check.  Then the finally block and the end of   *)
(* the task.                                                               *)
(***************************************************************************)
TaskRetryWake(t, queryFails) ==
    LET s == tasks[t].sid
        tier == tasks[t].tier
        k == tasks[t].attempt
        failed == Raises(tier, queryFails)
        over == (~failed) \/ (k + 1 >= MaxRetries)
    IN /\ tasks[t].pc = "retry_sleep"
       /\ afterStop' = CountAfterStop(s, tier)
       /\ tasks' = [tasks EXCEPT
              ![t] = [Called(@, Computation(tier)) EXCEPT
                        !.retries = Append(@, [wait |-> RetryDelay(tier, k),
                                               ok |-> ~failed]),
                        !.attempt = k + 1,
                        !.pc = IF over THEN "done" ELSE "retry_sleep"]]
       /\ active_sessions' = IF over THEN Finally(tier, s, active_sessions)
                             ELSE active_sessions

(***************************************************************************)
(* Properties of the scheduler.                                            *)
(***************************************************************************)
\* the loops of session s and one tier that are in their loop (asleep
\* between ticks or in a retry backoff)
RunningLoops(s, tier) ==
    {t \in TaskIds : /\ tasks[t].sid = s
                     /\ tasks[t].tier = tier
                     /\ tasks[t].pc \in {"sleeping", "retry_sleep"}}

\* C1: after two start calls in a row for a session, with no stop between,
\* at most one Tier-2 loop and at most one Tier-3 loop runs for it.
C1_StartTwiceOneLoopPerTier ==
    \A s \in SchedSessions :
        startsInRow(s) >= 2 =>
            /\ Cardinality(RunningLoops(s, "pagerank")) <= 1
            /\ Cardinality(RunningLoops(s, "betweenness")) <= 1

\* C2: once stop(S) has returned, with no later start for S and every loop
\* of S past its first step when the stop came, at most one further Tier-2
\* and one further Tier-3 computation is run for S.
C2_AtMostOneTickAfterStop ==
    \A s \in SchedSessions :
        (/\ stopped(s)
         /\ \A t \in TaskIds : tasks[t].sid = s => tasks[t].stale # "unborn")
        => /\ afterStop[s].pagerank <= 1
           /\ afterStop[s].betweenness <= 1

\* C3: in every Tier-2 loop the first computation is cold (20 iterations, no
\* seed) and every later one is warm (5 iterations, seeded from pagerank).
C3_ColdThenWarm ==
    \A t \in TaskIds :
        tasks[t].tier = "pagerank" =>
            /\ tasks[t].ncalls = 1 =>
                  tasks[t].lastCall = [algo |-> "pagerank", max_iterations |-> 20,
                                       seed_property |-> "None"]
            /\ tasks[t].ncalls = 2 =>
                  tasks[t].lastCall = [algo |-> "pagerank", max_iterations |-> 5,
                                       seed_property |-> "pagerank"]

\* C3 witness: a loop launched by a re-start after a stop has run its cold
\* computation and a later one.
C3_Witness ==
    \E t, u \in TaskIds :
        /\ t < u
        /\ tasks[t].tier = "pagerank" /\ tasks[u].tier = "pagerank"
        /\ tasks[t].sid = tasks[u].sid
        /\ tasks[t].stale = "yes" /\ tasks[u].stale = "no"
        /\ tasks[u].ncalls = 2

\* the retry sequence of task t has ended: a retry succeeded or all failed
RetryOver(t) ==
    /\ Len(tasks[t].retries) > 0
    /\ \/ tasks[t].retries[Len(tasks[t].retries)].ok
       \/ Len(tasks[t].retries) = MaxRetries

\* C4: a Tier-2 loop whose retry sequence has ended, and whose session was
\* not stopped, is back in its interval cycle and its session is still in
\* the active set.
C4_LoopSurvivesRetries ==
    \A t \in TaskIds :
        (tasks[t].tier = "pagerank" /\ RetryOver(t) /\ tasks[t].stale = "no")
        => /\ tasks[t].pc = "sleeping"
           /\ tasks[t].sid \in active_sessions

\* C5: the retries of one Tier-2 tick failure are at most 3, the waits before
\* them are 1s, 2s, 4s in that order, and no retry follows a successful one.
C5_BoundedBackoff ==
    \A t \in TaskIds :
        tasks[t].tier = "pagerank" =>
            LET r == tasks[t].retries
            IN /\ Len(r) <= 3
               /\ [i \in 1..Len(r) |-> r[i].wait] = SubSeq(<<1, 2, 4>>, 1, Len(r))
               /\ \A i \in 1..Len(r) : i < Len(r) => ~r[i].ok

\* C5 witness: one loop went through all three failed retries and another
\* stopped retrying at a retry that succeeded.
C5_Witness ==
    \E t, u \in TaskIds :
        /\ tasks[t].tier = "pagerank" /\ tasks[u].tier = "pagerank"
        /\ Len(tasks[t].retries) = 3 /\ ~tasks[t].retries[3].ok
        /\ Len(tasks[u].retries) = 2 /\ tasks[u].retries[2].ok

\* C6: when a session is stopped and then started again, a loop launched
\* by the earlier start exits at its next wake from the interval sleep.
C6_OldLoopsExitAtNextWake ==
    [][\A t \in TaskIds :
          (/\ tasks[t].stale = "yes"
           /\ tasks[t].pc = "sleeping"
           /\ startsInRow(tasks[t].sid) = 1
           /\ \A u \in TaskIds : tasks[u].stale # "unborn"
           /\ tasks'[t] # tasks[t])
          => tasks'[t].pc = "done"]_vars

SchedInit ==
    /\ active_sessions = {}
    /\ tasks = <<>>
    /\ afterStop = [s \in Sessions |-> [pagerank |-> 0, betweenness |-> 0]]

SchedNext ==
    \/ \E s \in SchedSessions :
          StartBackgroundAlgorithms(s) /\ UNCHANGED <<neoVars, builderVars, kgVars, linkerVars, apiVars, restVars>>
    \/ \E s \in SchedSessions :
          StopBackgroundAlgorithms(s) /\ UNCHANGED <<neoVars, builderVars, kgVars, linkerVars, apiVars, restVars>>
    \/ \E t \in TaskIds, queryFails \in BOOLEAN :
          TasksBegin(t, queryFails) /\ UNCHANGED <<neoVars, builderVars, kgVars, linkerVars, apiVars, restVars>>
    \/ \E t \in TaskIds :
          TaskWakeExit(t) /\ UNCHANGED <<neoVars, builderVars, kgVars, linkerVars, apiVars, restVars>>
    \/ \E t \in TaskIds, queryFails \in BOOLEAN :
          TaskWakeTick(t, queryFails) /\ UNCHANGED <<neoVars, builderVars, kgVars, linkerVars, apiVars, restVars>>
    \/ \E t \in TaskIds, queryFails \in BOOLEAN :
          TaskRetryWake(t, queryFails) /\ UNCHANGED <<neoVars, builderVars, kgVars, linkerVars, apiVars, restVars>>

\* The scheduler serving both sessions.
\* Each session is started once.
IsolationNext ==
    \/ \E s \in Sessions :
          /\ \A t \in TaskIds : tasks[t].sid # s
          /\ StartBackgroundAlgorithms(s)
          /\ UNCHANGED <<neoVars, builderVars, kgVars, linkerVars, apiVars, restVars>>
    \/ \E s \in Sessions :
          StopBackgroundAlgorithms(s) /\ UNCHANGED <<neoVars, builderVars, kgVars, linkerVars, apiVars, restVars>>
    \/ \E t \in TaskIds, queryFails \in BOOLEAN :
          TasksBegin(t, queryFails) /\ UNCHANGED <<neoVars, builderVars, kgVars, linkerVars, apiVars, restVars>>
    \/ \E t \in TaskIds :
          TaskWakeExit(t) /\ UNCHANGED <<neoVars, builderVars, kgVars, linkerVars, apiVars, restVars>>
    \/ \E t \in TaskIds, queryFails \in BOOLEAN :
          TaskWakeTick(t, queryFails) /\ UNCHANGED <<neoVars, builderVars, kgVars, linkerVars, apiVars, restVars>>
    \/ \E t \in TaskIds, queryFails \in BOOLEAN :
          TaskRetryWake(t, queryFails) /\ UNCHANGED <<neoVars, builderVars, kgVars, linkerVars, apiVars, restVars>>

\* one step of the task in position t, whenever the event loop runs it
TaskStep(t) ==
    /\ t \in TaskIds
    /\ \E queryFails \in BOOLEAN :
          \/ TasksBegin(t, queryFails)
          \/ TaskWakeExit(t)
          \/ TaskWakeTick(t, queryFails)
          \/ TaskRetryWake(t, queryFails)
    /\ UNCHANGED <<neoVars, builderVars, kgVars, linkerVars, apiVars, restVars>>

\* the event loop runs every ready task and every timer fires
TaskFairness == \A t \in 1..(2 * MaxStarts) : WF_vars(TaskStep(t))

\* a stop of session s, or a step of one of its tasks
StepOf(s) ==
    \/ StopBackgroundAlgorithms(s)
    \/ \E t \in TaskIds : tasks[t].sid = s /\ TaskStep(t)

\* C21: a stop of a session, and every step of its loops (a tick that fails,
\* a retry, the end of a loop), leaves the membership of every other session
\* in the active set and every task of every other session as they are.
C21_SessionsIsolated ==
    [][ \A s1, s2 \in Sessions :
          (s1 # s2 /\ StepOf(s1))
          => /\ (s2 \in active_sessions') <=> (s2 \in active_sessions)
             /\ \A t \in TaskIds : tasks[t].sid = s2 => tasks'[t] = tasks[t]
      ]_vars

\* the Tier-2 loop of one session has ended after a failed retry, while the
\* other session is active with both loops asleep after a tick
C21_Witness ==
    \E t, u, v \in TaskIds :
        /\ tasks[t].tier = "pagerank" /\ tasks[t].pc = "done"
        /\ tasks[t].retries # <<>> /\ ~tasks[t].retries[1].ok
        /\ tasks[u].sid # tasks[t].sid /\ tasks[v].sid = tasks[u].sid
        /\ tasks[u].sid \in active_sessions
        /\ tasks[u].tier = "pagerank" /\ tasks[u].pc = "sleeping" /\ tasks[u].ncalls = 2
        /\ tasks[v].tier = "betweenness" /\ tasks[v].pc = "sleeping"

\* C22: stop_background_algorithms raises no error; after it the session is
\* not in the active set; called for a session that is not in the set it
\* leaves the set as it is; and it leaves the membership of every other
\* session and the position of every task as they are.  So a second stop in
\* a row changes nothing.
C22_StopIdempotent ==
    [][ \A s \in Sessions :
          StopBackgroundAlgorithms(s)
          => /\ ~stop_background_algorithms(active_sessions, s).raised
             /\ s \notin active_sessions'
             /\ s \notin active_sessions => active_sessions' = active_sessions
             /\ active_sessions' \ {s} = active_sessions \ {s}
             /\ \A t \in TaskIds : /\ tasks'[t].pc = tasks[t].pc
                                    /\ tasks'[t].attempt = tasks[t].attempt
      ]_vars

\* stop has been called for a session whose tasks had not yet registered it
\* in the active set, while the other session is active with a loop asleep
C22_Witness ==
    \E t, u \in TaskIds :
        /\ \A v \in TaskIds : tasks[v].sid = tasks[t].sid => tasks[v].stale = "unborn"
        /\ tasks[t].sid \notin active_sessions
        /\ tasks[u].sid # tasks[t].sid
        /\ tasks[u].sid \in active_sessions
        /\ tasks[u].pc = "sleeping"

\* C23: a tick of a Tier-3 loop in which the betweenness query fails takes
\* the loop into its retry sequence, with the first retry still to come.
C23_BetweennessRetries ==
    [][ \A t \in TaskIds :
          (tasks[t].tier = "betweenness" /\ TaskWakeTick(t, TRUE))
          => tasks'[t].pc = "retry_sleep" /\ tasks'[t].attempt = 0
      ]_vars

\* every task of session s is over
LoopsOver(s) ==
    \A t \in TaskIds : tasks[t].sid = s => tasks[t].pc \in {"done", "crashed"}

\* C29: when the last scheduler call for a session is a stop, the loops of
\* the session all end eventually.
C29_StopEventuallyTerminates ==
    \A s \in SchedSessions : <>[]stopped(s) => <>[]LoopsOver(s)

\* C30: the Tier-2 task of a session started once, which has run its first
\* step, is in its loop (asleep or in a retry backoff) for as long as the
\* session is in the active set.
C30_ColdFailureKeepsLoop ==
    \A t \in TaskIds :
        ( /\ tasks[t].tier = "pagerank"
          /\ tasks[t].pc # "created"
          /\ tasks[t].stale = "no"
          /\ startsInRow(tasks[t].sid) = 1
          /\ tasks[t].sid \in active_sessions )
        => tasks[t].pc \in {"sleeping", "retry_sleep"}

\* C31: for a session started once and not stopped, the end of its Tier-2
\* loop (by a failure or after the retries) leaves the session in the active
\* set, and its Tier-3 loop has not exited.
C31_LoopsIndependent ==
    \A t \in TaskIds :
        (tasks[t].stale = "no" /\ startsInRow(tasks[t].sid) = 1) =>
            /\ (tasks[t].tier = "pagerank" /\ tasks[t].pc \in {"done", "crashed"})
                  => tasks[t].sid \in active_sessions
            /\ tasks[t].tier = "betweenness" => tasks[t].pc # "done"

(***************************************************************************)
(*                         The Neo4j graph store                           *)
(***************************************************************************)
NodeIds == {"work", "anxiety", "stress"}

\* the session whose entities are explored in the store
StoreSessions == {"s1"}
StoreKeys == StoreSessions \X NodeIds
NodeTypes == {"TOPIC", "EMOTION"}

\* An embedding: its length, and its leading components (the rest are 0).
Embedding(n, v) == [dim |-> n, v |-> v]

\* what a caller may hand to create_or_update_entity
Payloads ==
    { [node_type |-> "TOPIC", label |-> "Work",
       embedding |-> Embedding(EmbeddingDimension, <<3, 4>>), context |-> "None"],
      [node_type |-> "EMOTION", label |-> "Anxiety",
       embedding |-> Embedding(EmbeddingDimension, <<4, 3>>), context |-> "From insight note"],
      [node_type |-> "TOPIC", label |-> "Work",
       embedding |-> Embedding(768, <<3, 4>>), context |-> "None"] }

\* similarity scores handed to create_similarity_edge, in hundredths
Scores == {50, 80}

Key(session_id, node_id) == <<session_id, node_id>>

NoOp == [op |-> "none", key |-> <<>>, other |-> <<>>, score |-> 0,
         ret |-> 0, raised |-> FALSE]

(***************************************************************************)
(* create_or_update_entity: the dimension check, then                      *)
(*   MERGE (e:Entity {session_id, node_id})                                *)
(*   ON CREATE SET ... mention_count = 1, weighted_degree = 0.0,           *)
(*                     pagerank = 0.15, betweenness = 0.0                  *)
(*   ON MATCH SET e.mention_count = e.mention_count + 1                    *)
(* The result: whether it raised, and the entities afterwards.             *)
(***************************************************************************)
create_or_update_entity(ents, session_id, node_id, node_type, label, embedding, context) ==
    LET k == Key(session_id, node_id)
    IN IF embedding.dim # EmbeddingDimension
       THEN [raised |-> TRUE, entities |-> ents]
       ELSE IF k \in DOMAIN ents
       THEN [raised |-> FALSE,
             entities |-> [ents EXCEPT ![k].mention_count = @ + 1]]
       ELSE [raised |-> FALSE,
             entities |-> (k :> [node_type |-> node_type,
                                 label |-> label,
                                 embedding |-> embedding,
                                 mention_count |-> 1,
                                 context |-> context,
                                 weighted_degree |-> 0,
                                 pagerank |-> PagerankSeed,
                                 betweenness |-> 0]) @@ ents]

(***************************************************************************)
(* create_similarity_edge:                                                 *)
(*   MATCH (source:Entity {session_id, node_id: source_id})                *)
(*   MATCH (target:Entity {session_id, node_id: target_id})                *)
(*   MERGE (source)-[r:SIMILAR_TO]-(target)                                *)
(*   ON CREATE SET r.similarity_score = $similarity_score                  *)
(* The undirected MERGE pattern matches a relationship of either           *)
(* direction and creates one from source to target when there is none.     *)
(***************************************************************************)
Between(rels, a, b) ==
    {i \in DOMAIN rels : \/ rels[i].src = a /\ rels[i].dst = b
                         \/ rels[i].src = b /\ rels[i].dst = a}

BetweenDirected(rels, a, b) ==
    {i \in DOMAIN rels : rels[i].src = a /\ rels[i].dst = b}

MergeMatches(rels, a, b) == Between(rels, a, b)

SourceMatched(ents, a, b) == a \in DOMAIN ents

\* the two MATCH clauses bind source and target: both entities exist in the
\* session
EndpointsMatched(ents, a, b) == a \in DOMAIN ents /\ b \in DOMAIN ents

create_similarity_edge(ents, rels, session_id, source_id, target_id, similarity_score) ==
    LET a == Key(session_id, source_id)
        b == Key(session_id, target_id)
    IN IF ~EndpointsMatched(ents, a, b)
       THEN rels
       ELSE IF MergeMatches(rels, a, b) # {}
       THEN rels
       ELSE Append(rels, [src |-> a, dst |-> b, similarity_score |-> similarity_score])

(***************************************************************************)
(* update_weighted_degree:                                                 *)
(*   MATCH (e:Entity {session_id, node_id})                                *)
(*   OPTIONAL MATCH (e)-[r:SIMILAR_TO]-()                                  *)
(*   WITH e, sum(r.similarity_score) AS weighted_degree                    *)
(*   SET e.weighted_degree = coalesce(weighted_degree, 0.0)                *)
(* The result: the entities afterwards and the value returned (0.0 when    *)
(* no entity matches).                                                     *)
(***************************************************************************)
RECURSIVE SumScores(_, _)
SumScores(rels, idx) ==
    IF idx = {} THEN 0
    ELSE LET i == CHOOSE j \in idx : TRUE
         IN rels[i].similarity_score + SumScores(rels, idx \ {i})

\* the relationships the pattern (e)-[r:SIMILAR_TO]-() binds r to
Incident(rels, k) ==
    {i \in DOMAIN rels : rels[i].src = k \/ rels[i].dst = k}

OptionalMatch(rels, k) == Incident(rels, k)

WeightedDegreeAccumulated(ents, rels, k) ==
    ents[k].weighted_degree + SumScores(rels, OptionalMatch(rels, k))

WeightedDegreeOf(ents, rels, k) == SumScores(rels, OptionalMatch(rels, k))

update_weighted_degree(ents, rels, session_id, node_id) ==
    LET k == Key(session_id, node_id)
    IN IF k \notin DOMAIN ents
       THEN [entities |-> ents, ret |-> 0]
       ELSE LET wd == WeightedDegreeOf(ents, rels, k)
            IN [entities |-> [ents EXCEPT ![k].weighted_degree = wd], ret |-> wd]

\* batch_update_weighted_degree: the same recomputation for every entity of
\* the session; returns the number of entities updated
batch_update_weighted_degree(ents, rels, session_id) ==
    LET ks == {k \in DOMAIN ents : k[1] = session_id}
    IN [entities |-> [k \in DOMAIN ents |->
                         IF k \in ks
                         THEN [ents[k] EXCEPT
                                 !.weighted_degree = WeightedDegreeOf(ents, rels, k)]
                         ELSE ents[k]],
        ret |-> Cardinality(ks)]

(***************************************************************************)
(* The calls of the Neo4j client, made one at a time (the driver is        *)
(* synchronous).                                                           *)
(***************************************************************************)
Neo4jCreateOrUpdateEntity(session_id, node_id, p) ==
    LET r == create_or_update_entity(entities, session_id, node_id,
                                     p.node_type, p.label, p.embedding, p.context)
        k == Key(session_id, node_id)
    IN /\ storeOps < MaxStoreOps
       /\ k \in DOMAIN entities => entities[k].mention_count < MaxMentions
       /\ entities' = r.entities
       /\ lastOp' = [NoOp EXCEPT !.op = "create_or_update_entity", !.key = k,
                                 !.raised = r.raised]
       /\ storeOps' = storeOps + 1
       /\ UNCHANGED relationships

Neo4jCreateSimilarityEdge(session_id, source_id, target_id, score) ==
    /\ storeOps < MaxStoreOps
    /\ relationships' = create_similarity_edge(entities, relationships, session_id,
                                               source_id, target_id, score)
    /\ lastOp' = [NoOp EXCEPT !.op = "create_similarity_edge",
                              !.key = Key(session_id, source_id),
                              !.other = Key(session_id, target_id),
                              !.score = score]
    /\ storeOps' = storeOps + 1
    /\ UNCHANGED entities

Neo4jUpdateWeightedDegree(session_id, node_id) ==
    LET r == update_weighted_degree(entities, relationships, session_id, node_id)
    IN /\ storeOps < MaxStoreOps
       /\ entities' = r.entities
       /\ lastOp' = [NoOp EXCEPT !.op = "update_weighted_degree",
                                 !.key = Key(session_id, node_id), !.ret = r.ret]
       /\ storeOps' = storeOps + 1
       /\ UNCHANGED relationships

Neo4jBatchUpdateWeightedDegree(session_id) ==
    LET r == batch_update_weighted_degree(entities, relationships, session_id)
    IN /\ storeOps < MaxStoreOps
       /\ entities' = r.entities
       /\ lastOp' = [NoOp EXCEPT !.op = "batch_update_weighted_degree", !.ret = r.ret]
       /\ storeOps' = storeOps + 1
       /\ UNCHANGED relationships

StoreInit ==
    /\ entities = <<>>
    /\ relationships = <<>>
    /\ lastOp = NoOp
    /\ storeOps = 0

StoreNext ==
    \/ \E k \in StoreKeys, p \in Payloads :
          Neo4jCreateOrUpdateEntity(k[1], k[2], p) /\ UNCHANGED <<schedVars, builderVars, kgVars, linkerVars, apiVars, restVars>>
    \/ \E k \in StoreKeys, b \in NodeIds, sc \in Scores :
          Neo4jCreateSimilarityEdge(k[1], k[2], b, sc) /\ UNCHANGED <<schedVars, builderVars, kgVars, linkerVars, apiVars, restVars>>
    \/ \E k \in StoreKeys :
          Neo4jUpdateWeightedDegree(k[1], k[2]) /\ UNCHANGED <<schedVars, builderVars, kgVars, linkerVars, apiVars, restVars>>
    \/ \E s \in StoreSessions :
          Neo4jBatchUpdateWeightedDegree(s) /\ UNCHANGED <<schedVars, builderVars, kgVars, linkerVars, apiVars, restVars>>

\* The entity and edge calls of the client on two sessions that use the same
\* node ids.
EdgeNodeIds == {"work", "anxiety"}
EdgePayload == [node_type |-> "TOPIC", label |-> "Work",
                embedding |-> Embedding(EmbeddingDimension, <<3, 4>>),
                context |-> "None"]

EdgeNext ==
    \/ \E s \in Sessions, n \in EdgeNodeIds :
          Neo4jCreateOrUpdateEntity(s, n, EdgePayload) /\ UNCHANGED <<schedVars, builderVars, kgVars, linkerVars, apiVars, restVars>>
    \/ \E s \in Sessions, a \in EdgeNodeIds, b \in EdgeNodeIds, sc \in Scores :
          Neo4jCreateSimilarityEdge(s, a, b, sc) /\ UNCHANGED <<schedVars, builderVars, kgVars, linkerVars, apiVars, restVars>>

(***************************************************************************)
(* The write-back of the Tier-2 and Tier-3 computations:                   *)
(*   YIELD nodeId, score                                                   *)
(*   MATCH (e:Entity) WHERE id(e) = nodeId                                 *)
(*   SET e.pagerank = score        (SET e.betweenness = score)             *)
(* for the nodes of the nodeQuery, the entities of the session.  The       *)
(* scores are whatever the graph library computes.                         *)
(***************************************************************************)
PagerankScores == {PagerankSeed, 40}
BetweennessScores == {0, 100}

SessionKeys(ents, session_id) == {k \in DOMAIN ents : k[1] = session_id}

write_pagerank_and_reset_betweenness(ents, session_id, score) ==
    [k \in DOMAIN ents |->
        IF k[1] = session_id
        THEN [ents[k] EXCEPT !.pagerank = score[k], !.betweenness = 0]
        ELSE ents[k]]

write_pagerank(ents, session_id, score) ==
    [k \in DOMAIN ents |->
        IF k[1] = session_id THEN [ents[k] EXCEPT !.pagerank = score[k]] ELSE ents[k]]

write_betweenness(ents, session_id, score) ==
    [k \in DOMAIN ents |->
        IF k[1] = session_id THEN [ents[k] EXCEPT !.betweenness = score[k]] ELSE ents[k]]

Neo4jWritePagerank(session_id, score) ==
    /\ storeOps < MaxStoreOps
    /\ entities' = write_pagerank(entities, session_id, score)
    /\ lastOp' = [NoOp EXCEPT !.op = "update_pagerank_streaming",
                              !.ret = Cardinality(SessionKeys(entities, session_id))]
    /\ storeOps' = storeOps + 1
    /\ UNCHANGED relationships

Neo4jWriteBetweenness(session_id, score) ==
    /\ storeOps < MaxStoreOps
    /\ entities' = write_betweenness(entities, session_id, score)
    /\ lastOp' = [NoOp EXCEPT !.op = "update_betweenness_streaming",
                              !.ret = Cardinality(SessionKeys(entities, session_id))]
    /\ storeOps' = storeOps + 1
    /\ UNCHANGED relationships

\* Every writer of the store on one session: the client calls and the two
\* scheduled computations.
MetricsSessions == {"s1"}

MetricsNext ==
    \/ \E s \in MetricsSessions, n \in EdgeNodeIds :
          Neo4jCreateOrUpdateEntity(s, n, EdgePayload)
             /\ UNCHANGED <<schedVars, builderVars, kgVars, linkerVars, apiVars, restVars>>
    \/ \E s \in MetricsSessions, a \in EdgeNodeIds, b \in EdgeNodeIds, sc \in Scores :
          Neo4jCreateSimilarityEdge(s, a, b, sc)
             /\ UNCHANGED <<schedVars, builderVars, kgVars, linkerVars, apiVars, restVars>>
    \/ \E s \in MetricsSessions, n \in EdgeNodeIds :
          Neo4jUpdateWeightedDegree(s, n) /\ UNCHANGED <<schedVars, builderVars, kgVars, linkerVars, apiVars, restVars>>
    \/ \E s \in MetricsSessions :
          Neo4jBatchUpdateWeightedDegree(s) /\ UNCHANGED <<schedVars, builderVars, kgVars, linkerVars, apiVars, restVars>>
    \/ \E s \in MetricsSessions :
          \E score \in [SessionKeys(entities, s) -> PagerankScores] :
             Neo4jWritePagerank(s, score) /\ UNCHANGED <<schedVars, builderVars, kgVars, linkerVars, apiVars, restVars>>
    \/ \E s \in MetricsSessions :
          \E score \in [SessionKeys(entities, s) -> BetweennessScores] :
             Neo4jWriteBetweenness(s, score) /\ UNCHANGED <<schedVars, builderVars, kgVars, linkerVars, apiVars, restVars>>

(***************************************************************************)
(*                      Claims about the graph store                       *)
(***************************************************************************)

\* C8: for existing entities A and B, a call of create_similarity_edge on
\* (A,B) or on (B,A) leaves exactly one SIMILAR_TO relationship between them;
\* the first call creates it with the score it was given, and every later
\* call, in either direction and with any score, changes nothing.
C8_EdgeCommutativeIdempotent ==
    [][ ( /\ storeOps' = storeOps + 1
          /\ lastOp'.op = "create_similarity_edge"
          /\ lastOp'.key \in DOMAIN entities
          /\ lastOp'.other \in DOMAIN entities )
        => LET a == lastOp'.key
               b == lastOp'.other
           IN /\ Cardinality(Between(relationships', a, b)) = 1
              /\ Between(relationships, a, b) # {} => relationships' = relationships
              /\ Between(relationships, a, b) = {} =>
                    /\ Len(relationships') = Len(relationships) + 1
                    /\ SubSeq(relationships', 1, Len(relationships)) = relationships
                    /\ relationships'[Len(relationships')].similarity_score = lastOp'.score
      ]_vars

\* a call on (B,A) with another score has just met the edge created from A to B
C8_Witness ==
    /\ lastOp.op = "create_similarity_edge"
    /\ lastOp.key # lastOp.other
    /\ \E i \in DOMAIN relationships :
          /\ relationships[i].src = lastOp.other
          /\ relationships[i].dst = lastOp.key
          /\ relationships[i].similarity_score # lastOp.score

\* C10: update_weighted_degree sets the entity's weighted_degree to the sum of
\* the scores of all relationships incident to it (0 when there are none) and
\* returns that sum; so a repeated call with the same relationships returns
\* the same value.
C10_WeightedDegreeIsIncidentSum ==
    lastOp.op = "update_weighted_degree" =>
        LET k == lastOp.key
            total == SumScores(relationships, Incident(relationships, k))
        IN /\ lastOp.ret = total
           /\ k \in DOMAIN entities => entities[k].weighted_degree = total
           /\ k \notin DOMAIN entities => total = 0

\* the entity just refreshed has an incoming and an outgoing relationship
C10_Witness ==
    /\ lastOp.op = "update_weighted_degree"
    /\ lastOp.ret > 0
    /\ \E i, j \in DOMAIN relationships :
          /\ relationships[i].src = lastOp.key
          /\ relationships[j].dst = lastOp.key
          /\ relationships[i].dst # lastOp.key
          /\ relationships[j].src # lastOp.key

\* the fields of the entities that op may change
MayChange(op) ==
    CASE op = "create_or_update_entity" -> {"mention_count"}
      [] op = "create_similarity_edge" -> {}
      [] op \in {"update_weighted_degree", "batch_update_weighted_degree"}
            -> {"weighted_degree"}
      [] op = "update_pagerank_streaming" -> {"pagerank"}
      [] op = "update_betweenness_streaming" -> {"betweenness"}

\* C27: weighted_degree changes only in update_weighted_degree and
\* batch_update_weighted_degree, pagerank only in the Tier-2 write,
\* betweenness only in the Tier-3 write and mention_count only in an upsert;
\* no call but an upsert that creates adds an entity, and no call but
\* create_similarity_edge changes the relationships.
C27_MetricsWrittenByOwnTier ==
    [][ storeOps' = storeOps + 1
        => /\ \A k \in DOMAIN entities :
                /\ k \in DOMAIN entities'
                /\ \A field \in {"weighted_degree", "pagerank", "betweenness",
                                  "mention_count"} \ MayChange(lastOp'.op) :
                      entities'[k][field] = entities[k][field]
           /\ lastOp'.op # "create_or_update_entity" =>
                 DOMAIN entities' = DOMAIN entities
           /\ lastOp'.op # "create_similarity_edge" => relationships' = relationships
      ]_vars

\* an entity mentioned twice, with an edge, whose three metrics have all been
\* written since its creation
C27_Witness ==
    \E k \in DOMAIN entities :
        /\ entities[k].mention_count >= 2
        /\ entities[k].weighted_degree > 0
        /\ entities[k].pagerank # PagerankSeed
        /\ entities[k].betweenness # 0

\* C26: after an upsert that the store accepts, the stored context of the
\* entity is the context handed to that upsert.
C26_ContextLastWriteWins ==
    [][ \A k \in StoreKeys, p \in Payloads :
          ( /\ Neo4jCreateOrUpdateEntity(k[1], k[2], p)
            /\ p.embedding.dim = EmbeddingDimension )
          => entities'[k].context = p.context
      ]_vars

\* C20: both endpoints of every stored relationship are entities of one
\* session, the one the relationship was created in; and a call of
\* create_similarity_edge with an endpoint that is no entity of its session
\* creates nothing.
C20_EdgeEndpointsExist ==
    /\ [](\A x \in DOMAIN relationships :
            /\ relationships[x].src \in DOMAIN entities
            /\ relationships[x].dst \in DOMAIN entities
            /\ relationships[x].src[1] = relationships[x].dst[1])
    /\ [][ ( /\ storeOps' = storeOps + 1
              /\ lastOp'.op = "create_similarity_edge"
              /\ \/ lastOp'.key \notin DOMAIN entities
                 \/ lastOp'.other \notin DOMAIN entities )
            => relationships' = relationships /\ entities' = entities
         ]_vars

\* the latest call named a target that is an entity of the other session
\* only, while its own session has a relationship
C20_Witness ==
    /\ lastOp.op = "create_similarity_edge"
    /\ lastOp.key \in DOMAIN entities
    /\ lastOp.other \notin DOMAIN entities
    /\ \E s \in Sessions : s # lastOp.other[1] /\ Key(s, lastOp.other[2]) \in DOMAIN entities
    /\ relationships # <<>>

(***************************************************************************)
(*                          The semantic linker                            *)
(***************************************************************************)
\* The vector the embedding model returns for a text.  Every vector has
\* norm 0 or 5, so that the cosine below is exact in hundredths.
EmbeddingVector(text) ==
    CASE text = "Work"       -> <<3, 4>>
      [] text = "Anxiety"    -> <<4, 3>>
      [] text = "Job stress" -> <<0, -5>>
      [] text = "Distress"   -> <<4, 3>>
      [] text = "Coping Strategies" -> <<3, 4>>
      [] OTHER               -> <<0, 0>>

\* get_embedding: the embedding of the response, or None (the empty list
\* here) when the request fails
get_embedding(text, requestFails) ==
    IF requestFails THEN <<>> ELSE EmbeddingVector(text)

Dot(a, b) == a[1] * b[1] + a[2] * b[2]

\* np.linalg.norm
Norm(a) == CHOOSE n \in 0..10 : n * n = Dot(a, a)

\* cosine_similarity, in hundredths: 0.0 for a zero vector, else the cosine
\* mapped from [-1, 1] to [0, 1]
cosine_similarity(embedding_a, embedding_b) ==
    LET norm_a == Norm(embedding_a)
        norm_b == Norm(embedding_b)
    IN IF norm_a = 0 \/ norm_b = 0
       THEN 0
       ELSE LET similarity == (Dot(embedding_a, embedding_b) * 100) \div (norm_a * norm_b)
            IN (similarity + 100) \div 2

(***************************************************************************)
(* cosine_similarity in binary floating point.  numpy computes in IEEE 754 *)
(* doubles: every operation returns the representable number nearest to    *)
(* the exact result, ties to the even significand.  The same arithmetic is *)
(* modelled with a significand of Precision bits instead of 53; a number   *)
(* is held as an integer count of units of 2^-UnitBits, and the numbers    *)
(* below 2^(Precision - 1) units are spaced one unit apart.                *)
(***************************************************************************)
Precision == 5
UnitBits == 6

\* 1.0
One == 2 ^ UnitBits

\* the distance between neighbouring representable numbers at magnitude q
RECURSIVE Ulp(_)
Ulp(q) == IF q < 2 ^ Precision THEN 1 ELSE 2 * Ulp(q \div 2)

\* the representable number nearest to num / den (num >= 0, den > 0)
RoundNearestEven(num, den) ==
    LET q == num \div den
        u == Ulp(q)
        lo == (q \div u) * u
        hi == lo + u
    IN IF 2 * num < (lo + hi) * den THEN lo
       ELSE IF 2 * num > (lo + hi) * den THEN hi
       ELSE IF (lo \div u) % 2 = 0 THEN lo ELSE hi

Round(num, den) ==
    IF num < 0 THEN 0 - RoundNearestEven(0 - num, den) ELSE RoundNearestEven(num, den)

FAdd(x, y) == Round(x + y, 1)
FMul(x, y) == Round(x * y, One)
FDiv(x, y) == Round(x * One, y)

\* the representable number nearest to the square root of x
FSqrt(x) ==
    LET m == x * One
        r == CHOOSE n \in 0..m : n * n <= m /\ m < (n + 1) * (n + 1)
        u == Ulp(r)
        lo == (r \div u) * u
        hi == lo + u
    IN IF 4 * m < (lo + hi) * (lo + hi) THEN lo
       ELSE IF 4 * m > (lo + hi) * (lo + hi) THEN hi
       ELSE IF (lo \div u) % 2 = 0 THEN lo ELSE hi

\* np.array(embedding): the components as floating-point numbers
FloatArray(a) == [i \in DOMAIN a |-> Round(a[i] * One, 1)]

\* np.dot
FDot(a, b) == FAdd(FMul(a[1], b[1]), FMul(a[2], b[2]))

\* np.linalg.norm
FNorm(a) == FSqrt(FDot(a, a))

\* cosine_similarity as the code computes it, every operation rounded
cosine_similarity_rounded(embedding_a, embedding_b) ==
    LET a == FloatArray(embedding_a)
        b == FloatArray(embedding_b)
        dot_product == FDot(a, b)
        norm_a == FNorm(a)
        norm_b == FNorm(b)
    IN IF norm_a = 0 \/ norm_b = 0
       THEN 0
       ELSE LET similarity == FDiv(dot_product, FMul(norm_a, norm_b))
                normalized_similarity == FDiv(FAdd(similarity, One), 2 * One)
            IN normalized_similarity

\* the embeddings handed to cosine_similarity: two components, small integers
MaxComponent == 3
Vectors == [1..2 -> (0 - MaxComponent)..MaxComponent]

NoCosineCall == [op |-> "none", a |-> <<0, 0>>, b |-> <<0, 0>>, result |-> 0]

\* a call about to be made with the arguments a and b
CosineArguments(a, b) == [op |-> "pending", a |-> a, b |-> b, result |-> 0]

CosineSimilarity(a, b) ==
    /\ cosineCall = CosineArguments(a, b)
    /\ cosineCall' = [op |-> "cosine_similarity", a |-> a, b |-> b,
                      result |-> cosine_similarity_rounded(a, b)]

LinkerInit == cosineCall = NoCosineCall

LinkerNext ==
    \E a, b \in Vectors :
        CosineSimilarity(a, b)
        /\ UNCHANGED <<schedVars, neoVars, builderVars, kgVars, apiVars, restVars>>

IsZero(a) == \A i \in DOMAIN a : a[i] = 0

\* C28: every result of cosine_similarity lies in [0.0, 1.0], it is 1.0 when
\* the two vectors are the same non-zero vector, and 0.0 when either vector
\* has zero norm.
C28_CosineRange ==
    cosineCall.op = "cosine_similarity" =>
        /\ 0 <= cosineCall.result /\ cosineCall.result <= One
        /\ (cosineCall.a = cosineCall.b /\ ~IsZero(cosineCall.a)) => cosineCall.result = One
        /\ (IsZero(cosineCall.a) \/ IsZero(cosineCall.b)) => cosineCall.result = 0

\* list.sort(key = score, reverse = True): stable, highest score first
RECURSIVE SortByScore(_)
SortByScore(pairs) ==
    IF Len(pairs) <= 1 THEN pairs
    ELSE LET rest == SortByScore(Tail(pairs))
             h == Head(pairs)
             before == SelectSeq(rest, LAMBDA q : q.score > h.score)
             after == SelectSeq(rest, LAMBDA q : q.score <= h.score)
         IN before \o <<h>> \o after

ComparesWithItself(new_node, node) == FALSE

\* if node['node_id'] == new_node['node_id']: continue
IsNewNode(new_node, node) == node.node_id = new_node.node_id

\* find_related_nodes: the existing nodes, other than the new node itself,
\* that have an embedding and a similarity at or above the threshold
find_related_nodes(new_node, existing_nodes) ==
    IF new_node.embedding = <<>> \/ existing_nodes = <<>>
    THEN <<>>
    ELSE LET candidates ==
                 SelectSeq(existing_nodes,
                    LAMBDA e : /\ ~IsNewNode(new_node, e)
                               /\ e.embedding # <<>>
                               /\ cosine_similarity(new_node.embedding, e.embedding)
                                     >= SIMILARITY_THRESHOLD)
         IN SortByScore([i \in DOMAIN candidates |->
                [node_id |-> candidates[i].node_id,
                 score |-> cosine_similarity(new_node.embedding, candidates[i].embedding)]])

(***************************************************************************)
(*            GraphBuilder.process_transcript_chunk over Prisma            *)
(*                                                                         *)
(* A call suspends at each await of a database request, so calls           *)
(* interleave between their requests.  pc names the request a call is      *)
(* about to make.                                                          *)
(***************************************************************************)
BuilderSessions == {"s1"}

ExtractedEntity(node_id, node_type, label, context) ==
    [node_id |-> node_id, node_type |-> node_type, label |-> label, context |-> context]

\* what the language model may return for a transcript chunk
Extractions ==
    { <<>>,
      <<ExtractedEntity("work", "TOPIC", "Work", "None")>>,
      <<ExtractedEntity("anxiety", "EMOTION", "Anxiety", "None"),
        ExtractedEntity("work", "TOPIC", "Work", "None")>>,
      <<ExtractedEntity("work", "TOPIC", "Work", "None"),
        ExtractedEntity("work", "EMOTION", "Job stress", "Again")>> }

\* transcript chunks, as sequences of characters: empty, whitespace only, text
Chunks == { <<>>, <<" ", "\n">>, <<"w", "o", "r", "k">> }

Whitespace == {" ", "\n", "\t"}

\* transcript_chunk.strip()
Strip(text) == SelectSeq(text, LAMBDA ch : ch \notin Whitespace)

\* the replies of the chat completion: an exception, a message without a
\* function call, or the entities of the function call
Responses ==
    { [kind |-> "raises", entities |-> <<>>],
      [kind |-> "no_function_call", entities |-> <<>>] }
    \cup { [kind |-> "function_call", entities |-> e] : e \in Extractions }

extract_unstripped(transcript_chunk, response) ==
    IF transcript_chunk = <<>>
    THEN <<>>
    ELSE IF response.kind \in {"raises", "no_function_call"}
    THEN <<>>
    ELSE response.entities

\* EntityExtractor.extract: no entities for an empty or whitespace-only chunk,
\* for a failed request and for a reply without function call
extract(transcript_chunk, response) ==
    IF transcript_chunk = <<>> \/ Strip(transcript_chunk) = <<>>
    THEN <<>>
    ELSE IF response.kind \in {"raises", "no_function_call"}
    THEN <<>>
    ELSE response.entities

\* the frame of a call that has entered the try block
NewCall(session_id, transcript_chunk) ==
    [session_id |-> session_id,
     blank |-> Strip(transcript_chunk) = <<>>,  \* history: nothing but whitespace
     entities |-> <<>>,
     pc |-> "extracting",
     status |-> "running",
     i |-> 0,
     existing_node_data |-> <<>>,
     existing |-> 0,
     mentionCount |-> 0,
     embedding |-> <<>>,
     related_nodes |-> <<>>,
     j |-> 0,
     nodes_added |-> <<>>,
     edges_added |-> <<>>,
     events |-> <<>>,     \* the broadcasts this call has emitted
     skipped |-> {},      \* history: the entities whose embedding failed
     compared |-> FALSE]  \* history: a similarity has been computed

CallIds == DOMAIN calls

\* realtime_service.broadcast_*: sio.emit of one event
Emit(f, event) == [f EXCEPT !.events = Append(@, event)]

\* the call is over; its locals are gone
Returned(f, status) ==
    [f EXCEPT !.pc = "returned", !.status = status, !.existing = 0,
              !.mentionCount = 0, !.embedding = <<>>, !.related_nodes = <<>>, !.j = 0,
              !.existing_node_data = <<>>]

\* how a broadcast, and the "error" broadcast that follows a failure, can go
Broadcasts == {"sent", "raises", "raises_twice"}

\* "except Exception": the "error" broadcast, then the return of status
\* "error" with the nodes and edges added so far.  When the "error" broadcast
\* itself raises, that exception leaves process_transcript_chunk: the caller
\* gets no ProcessingResult (status "raised").
Except(f, errorEmitFails) ==
    IF errorEmitFails
    THEN Returned(f, "raised")
    ELSE Returned(Emit(f, "error"), "error")

\* the frame after the broadcasts have been sent
Emits(f, events) == [f EXCEPT !.events = @ \o events]

\* a broadcast inside the try block: the frame "sent" when it goes through
\* (the broadcast recorded, the rest of the step done), else the except block
Broadcast(f, outcome, sent) ==
    IF outcome = "sent"
    THEN sent
    ELSE Except(f, outcome = "raises_twice")

\* the end of one iteration of "for entity in entities"; after the last one
\* the completion broadcast is next
NextEntity(f) ==
    IF f.i < Len(f.entities)
    THEN [f EXCEPT !.pc = "find_first", !.i = @ + 1, !.existing = 0, !.mentionCount = 0,
                   !.embedding = <<>>, !.related_nodes = <<>>, !.j = 0]
    ELSE [f EXCEPT !.pc = "completed", !.existing = 0,
                   !.mentionCount = 0, !.embedding = <<>>, !.related_nodes = <<>>, !.j = 0]

\* the end of one iteration of "for related_node_id, similarity_score in
\* related_nodes"; after the last one the new node joins existing_node_data
NextRelated(f) ==
    IF f.j < Len(f.related_nodes)
    THEN [f EXCEPT !.pc = "edge_find_first", !.j = @ + 1]
    ELSE NextEntity([f EXCEPT !.existing_node_data =
                        Append(@, [node_id |-> f.entities[f.i].node_id,
                                   embedding |-> f.embedding])])

\* "if not embedding: continue"
EmbeddingFailedAbort(f) == Except([f EXCEPT !.skipped = @ \cup {f.i}], FALSE)

EmbeddingFailed(f) == NextEntity([f EXCEPT !.skipped = @ \cup {f.i}])

\* the call up to its first database request: the "extracting" broadcast,
\* the extraction, and the return for an empty extraction
\* the calls that have not returned
InFlight == {c \in CallIds : calls[c].pc # "returned"}

AfterExtraction(f, extracted) ==
    IF extracted = <<>>
    THEN Returned(f, "no_entities_found")
    ELSE [f EXCEPT !.pc = "find_many", !.entities = extracted]

ProcessTranscriptChunk(session_id, transcript_chunk, response, emit) ==
    LET f == NewCall(session_id, transcript_chunk)
        extracted == extract(transcript_chunk, response)
    IN /\ Len(calls) < MaxCalls
       /\ calls' = Append(calls,
             Broadcast(f, emit, AfterExtraction(Emits(f, <<"extracting">>), extracted)))
       /\ UNCHANGED <<graphnode, graphedge>>

\* existing_nodes = await db.graphnode.find_many(where sessionId), then the
\* "embedding" broadcast
FindMany(c, emit) ==
    LET f == calls[c]
        rows == SelectSeq(graphnode, LAMBDA r : r.sessionId = f.session_id)
        g == [f EXCEPT !.existing_node_data =
                 [k \in DOMAIN rows |-> [node_id |-> rows[k].nodeId,
                                         embedding |-> rows[k].embedding]]]
    IN /\ f.pc = "find_many"
       /\ calls' = [calls EXCEPT ![c] =
             Broadcast(g, emit, NextEntity(Emits(g, <<"embedding">>)))]
       /\ UNCHANGED <<graphnode, graphedge>>

NodeMatches(session_id, node_id) ==
    {r \in DOMAIN graphnode : /\ graphnode[r].sessionId = session_id
                              /\ graphnode[r].nodeId = node_id}

\* existing = await db.graphnode.find_first(where sessionId, nodeId); when
\* there is none, the embedding of the label is requested
FindFirst(c, row, requestFails) ==
    LET f == calls[c]
        entity == f.entities[f.i]
        matches == NodeMatches(f.session_id, entity.node_id)
        embedding == get_embedding(entity.label, requestFails)
    IN /\ f.pc = "find_first"
       /\ IF matches # {} THEN row \in matches /\ ~requestFails ELSE row = 0
       /\ calls' = [calls EXCEPT ![c] =
             IF row # 0
             THEN [f EXCEPT !.pc = "update", !.existing = row,
                            !.mentionCount = graphnode[row].mentionCount]
             ELSE IF embedding = <<>>
             THEN EmbeddingFailed(f)
             ELSE [f EXCEPT !.pc = "create", !.embedding = embedding]]
       /\ UNCHANGED <<graphnode, graphedge>>

\* await db.graphnode.update(where id = existing.id,
\*                           data mentionCount = existing.mentionCount + 1)
Update(c) ==
    LET f == calls[c]
    IN /\ f.pc = "update"
       /\ graphnode' = [graphnode EXCEPT ![f.existing].mentionCount = f.mentionCount + 1]
       /\ calls' = [calls EXCEPT ![c] = NextEntity(f)]
       /\ UNCHANGED graphedge

\* the comparisons find_related_nodes makes: none without an embedding or
\* without existing nodes, else one per other node that has an embedding
Compared(new_node, existing_nodes) ==
    IF new_node.embedding = <<>> \/ existing_nodes = <<>>
    THEN {}
    ELSE {k \in DOMAIN existing_nodes :
             /\ existing_nodes[k].node_id # new_node.node_id
             /\ existing_nodes[k].embedding # <<>>}

\* node = await db.graphnode.create(...), the "node_added" and "linking"
\* broadcasts, then find_related_nodes
Create(c, emit) ==
    LET f == calls[c]
        entity == f.entities[f.i]
        node_data == [node_id |-> entity.node_id, embedding |-> f.embedding]
        related == find_related_nodes(node_data, f.existing_node_data)
        g == [f EXCEPT !.nodes_added = Append(@, Len(graphnode) + 1)]
    IN /\ f.pc = "create"
       /\ graphnode' = Append(graphnode,
                          [sessionId |-> f.session_id,
                           nodeId |-> entity.node_id,
                           nodeType |-> entity.node_type,
                           label |-> entity.label,
                           embedding |-> f.embedding,
                           context |-> entity.context,
                           mentionCount |-> 1,
                           createdBy |-> <<c, f.i>>])
       /\ calls' = [calls EXCEPT ![c] =
             Broadcast(g, emit,
                NextRelated([Emits(g, <<"node_added", "linking">>) EXCEPT
                     !.related_nodes = related, !.j = 0,
                     !.compared = @ \/ Compared(node_data, f.existing_node_data) # {}]))]
       /\ UNCHANGED graphedge

EdgeMatches(session_id, a, b) ==
    {e \in DOMAIN graphedge :
        /\ graphedge[e].sessionId = session_id
        /\ \/ graphedge[e].sourceNodeId = a /\ graphedge[e].targetNodeId = b
           \/ graphedge[e].sourceNodeId = b /\ graphedge[e].targetNodeId = a}

\* edge_exists = await db.graphedge.find_first(where sessionId, either orientation)
EdgeFindFirst(c) ==
    LET f == calls[c]
        edge_exists == EdgeMatches(f.session_id, f.entities[f.i].node_id,
                                   f.related_nodes[f.j].node_id) # {}
    IN /\ f.pc = "edge_find_first"
       /\ calls' = [calls EXCEPT ![c] =
             IF edge_exists THEN NextRelated(f) ELSE [f EXCEPT !.pc = "edge_create"]]
       /\ UNCHANGED <<graphnode, graphedge>>

\* edge = await db.graphedge.create(...), then the "edge_added" broadcast
EdgeCreate(c, emit) ==
    LET f == calls[c]
        g == [f EXCEPT !.edges_added = Append(@, Len(graphedge) + 1)]
    IN /\ f.pc = "edge_create"
       /\ graphedge' = Append(graphedge,
                          [sessionId |-> f.session_id,
                           sourceNodeId |-> f.entities[f.i].node_id,
                           targetNodeId |-> f.related_nodes[f.j].node_id,
                           similarityScore |-> f.related_nodes[f.j].score,
                           createdBy |-> c])
       /\ calls' = [calls EXCEPT ![c] =
             Broadcast(g, emit, NextRelated(Emits(g, <<"edge_added">>)))]
       /\ UNCHANGED graphnode

\* the "completed" broadcast and "return ProcessingResult(status='success')"
Complete(c, emit) ==
    LET f == calls[c]
    IN /\ f.pc = "completed"
       /\ calls' = [calls EXCEPT ![c] =
             Broadcast(f, emit, Returned(Emits(f, <<"completed">>), "success"))]
       /\ UNCHANGED <<graphnode, graphedge>>

DbRequests == {"find_many", "find_first", "update", "create", "edge_find_first", "edge_create"}

\* a database request raises
RequestRaises(c, errorEmitFails) ==
    LET f == calls[c]
    IN /\ f.pc \in DbRequests
       /\ calls' = [calls EXCEPT ![c] = Except(f, errorEmitFails)]
       /\ UNCHANGED <<graphnode, graphedge>>

BuilderInit ==
    /\ graphnode = <<>>
    /\ graphedge = <<>>
    /\ calls = <<>>

BuilderNext ==
    \/ \E s \in BuilderSessions, chunk \in Chunks, response \in Responses,
          emit \in Broadcasts :
          ProcessTranscriptChunk(s, chunk, response, emit)
             /\ UNCHANGED <<schedVars, neoVars, kgVars, linkerVars, apiVars, restVars>>
    \/ \E c \in CallIds, emit \in Broadcasts :
          FindMany(c, emit) /\ UNCHANGED <<schedVars, neoVars, kgVars, linkerVars, apiVars, restVars>>
    \/ \E c \in CallIds, row \in 0..Len(graphnode), requestFails \in BOOLEAN :
          FindFirst(c, row, requestFails) /\ UNCHANGED <<schedVars, neoVars, kgVars, linkerVars, apiVars, restVars>>
    \/ \E c \in CallIds :
          Update(c) /\ UNCHANGED <<schedVars, neoVars, kgVars, linkerVars, apiVars, restVars>>
    \/ \E c \in CallIds, emit \in Broadcasts :
          Create(c, emit) /\ UNCHANGED <<schedVars, neoVars, kgVars, linkerVars, apiVars, restVars>>
    \/ \E c \in CallIds :
          EdgeFindFirst(c) /\ UNCHANGED <<schedVars, neoVars, kgVars, linkerVars, apiVars, restVars>>
    \/ \E c \in CallIds, emit \in Broadcasts :
          EdgeCreate(c, emit) /\ UNCHANGED <<schedVars, neoVars, kgVars, linkerVars, apiVars, restVars>>
    \/ \E c \in CallIds, emit \in Broadcasts :
          Complete(c, emit) /\ UNCHANGED <<schedVars, neoVars, kgVars, linkerVars, apiVars, restVars>>
    \/ \E c \in CallIds, errorEmitFails \in BOOLEAN :
          RequestRaises(c, errorEmitFails) /\ UNCHANGED <<schedVars, neoVars, kgVars, linkerVars, apiVars, restVars>>

\* the same steps, with one call at a time: a call is received only when
\* every earlier call has returned
PipelineNext ==
    \/ \E s \in BuilderSessions, chunk \in Chunks, response \in Responses,
          emit \in Broadcasts :
          /\ InFlight = {}
          /\ ProcessTranscriptChunk(s, chunk, response, emit)
          /\ UNCHANGED <<schedVars, neoVars, kgVars, linkerVars, apiVars, restVars>>
    \/ \E c \in CallIds, emit \in Broadcasts :
          FindMany(c, emit) /\ UNCHANGED <<schedVars, neoVars, kgVars, linkerVars, apiVars, restVars>>
    \/ \E c \in CallIds, row \in 0..Len(graphnode), requestFails \in BOOLEAN :
          FindFirst(c, row, requestFails) /\ UNCHANGED <<schedVars, neoVars, kgVars, linkerVars, apiVars, restVars>>
    \/ \E c \in CallIds :
          Update(c) /\ UNCHANGED <<schedVars, neoVars, kgVars, linkerVars, apiVars, restVars>>
    \/ \E c \in CallIds, emit \in Broadcasts :
          Create(c, emit) /\ UNCHANGED <<schedVars, neoVars, kgVars, linkerVars, apiVars, restVars>>
    \/ \E c \in CallIds :
          EdgeFindFirst(c) /\ UNCHANGED <<schedVars, neoVars, kgVars, linkerVars, apiVars, restVars>>
    \/ \E c \in CallIds, emit \in Broadcasts :
          EdgeCreate(c, emit) /\ UNCHANGED <<schedVars, neoVars, kgVars, linkerVars, apiVars, restVars>>
    \/ \E c \in CallIds, emit \in Broadcasts :
          Complete(c, emit) /\ UNCHANGED <<schedVars, neoVars, kgVars, linkerVars, apiVars, restVars>>
    \/ \E c \in CallIds, errorEmitFails \in BOOLEAN :
          RequestRaises(c, errorEmitFails) /\ UNCHANGED <<schedVars, neoVars, kgVars, linkerVars, apiVars, restVars>>

(***************************************************************************)
(*                  Claims about the ingestion pipeline                    *)
(***************************************************************************)

\* C7: when an entity that is already stored is upserted again, whatever
\* label, embedding, node_type or context the call carries, the stored
\* embedding, label and node_type stay as they are and mention_count becomes
\* exactly the stored value plus 1.  Stated for the write that
\* process_transcript_chunk makes for an existing node.
C7_SecondUpsertIncrementsOnly ==
    [][ \A c \in CallIds :
          ( /\ calls[c].pc = "update"
            /\ calls'[c] # calls[c]
            /\ calls'[c].status = "running" )
          => LET r == calls[c].existing
             IN /\ graphnode'[r].embedding = graphnode[r].embedding
                /\ graphnode'[r].label = graphnode[r].label
                /\ graphnode'[r].nodeType = graphnode[r].nodeType
                /\ graphnode'[r].mentionCount = graphnode[r].mentionCount + 1
      ]_vars

\* C9: however process_transcript_chunk calls on one session interleave at
\* their awaits, the stored graph has at most one node row per
\* (sessionId, nodeId) and at most one edge row per unordered pair of node ids.
C9_NoDuplicatesUnderInterleaving ==
    /\ \A r1, r2 \in DOMAIN graphnode :
          ( /\ graphnode[r1].sessionId = graphnode[r2].sessionId
            /\ graphnode[r1].nodeId = graphnode[r2].nodeId ) => r1 = r2
    /\ \A e1, e2 \in DOMAIN graphedge :
          ( /\ graphedge[e1].sessionId = graphedge[e2].sessionId
            /\ {graphedge[e1].sourceNodeId, graphedge[e1].targetNodeId}
                  = {graphedge[e2].sourceNodeId, graphedge[e2].targetNodeId} ) => e1 = e2

\* Neo4jClient.get_entity_by_id(...)['weighted_degree']: the weighted degree
\* the graph store holds for a node, -1 when it holds no such entity
StoredWeightedDegree(session_id, node_id) ==
    IF Key(session_id, node_id) \in DOMAIN entities
    THEN entities[Key(session_id, node_id)].weighted_degree
    ELSE -1

\* A session that already holds the node "work", mentioned once, as a call
\* that extracted it and has since returned leaves it.
StoredNode ==
    [sessionId |-> "s1", nodeId |-> "work", nodeType |-> "TOPIC", label |-> "Work",
     embedding |-> EmbeddingVector("Work"), context |-> "None",
     mentionCount |-> 1, createdBy |-> <<0, 0>>]

MentionInit ==
    /\ graphnode = <<StoredNode>>
    /\ graphedge = <<>>
    /\ calls = <<>>

\* the rows a call has created, in creation order
NodesCreatedBy(c) == SelectSeq([r \in DOMAIN graphnode |-> r],
                               LAMBDA r : graphnode[r].createdBy[1] = c)
EdgesCreatedBy(c) == SelectSeq([e \in DOMAIN graphedge |-> e],
                               LAMBDA e : graphedge[e].createdBy = c)

Occurrences(events, event) == Cardinality({k \in DOMAIN events : events[k] = event})

\* C11: when a call has created a single edge between two nodes it created,
\* the Tier-1 refresh that follows the edge in the same call has left both
\* nodes with a weighted_degree equal to that edge's score.
C11_EdgeEndpointsRefreshed ==
    \A c \in CallIds :
        LET f == calls[c]
        IN ( /\ f.pc = "returned" /\ f.status = "success"
             /\ Len(f.edges_added) = 1 /\ Len(f.nodes_added) = 2 )
           => LET e == graphedge[f.edges_added[1]]
              IN /\ StoredWeightedDegree(f.session_id, e.sourceNodeId) = e.similarityScore
                 /\ StoredWeightedDegree(f.session_id, e.targetNodeId) = e.similarityScore

\* C12: a call that has added nodes has emitted exactly one batched graph
\* broadcast (graph_batch_update) and no per-node or per-edge graph broadcast.
C12_OneBatchedBroadcast ==
    \A c \in CallIds :
        LET f == calls[c]
        IN (f.pc = "returned" /\ f.status = "success" /\ f.nodes_added # <<>>)
           => /\ Occurrences(f.events, "graph_batch_update") = 1
              /\ Occurrences(f.events, "node_added") = 0
              /\ Occurrences(f.events, "edge_added") = 0

\* C13: no exception leaves process_transcript_chunk; a call in which a
\* step failed returns status "error" with exactly the nodes and edges it
\* had created, after an "error" broadcast.
C13_FailuresBecomeErrorStatus ==
    \A c \in CallIds :
        LET f == calls[c]
        IN f.pc = "returned"
           => /\ f.status # "raised"
              /\ f.status = "error" =>
                    /\ f.nodes_added = NodesCreatedBy(c)
                    /\ f.edges_added = EdgesCreatedBy(c)
                    /\ Occurrences(f.events, "error") = 1

C38_TerminalStatusBroadcast ==
    \A c \in CallIds :
        LET f == calls[c]
        IN (f.pc = "returned" /\ Occurrences(f.events, "extracting") >= 1)
           => Occurrences(f.events, "completed") + Occurrences(f.events, "error") = 1

\* C16: once a call has computed a similarity it upserts no further node.
C16_UpsertsBeforeSimilarity ==
    [][ \A c \in CallIds :
          (calls[c].compared /\ calls'[c] # calls[c]) => graphnode' = graphnode
      ]_vars

\* C17: when every call has returned with success, two nodes of a session
\* that both have an embedding are joined by an edge exactly when their
\* similarity is at or above the threshold (stated for graphs without
\* duplicate rows).
C17_EdgeIffAboveThreshold ==
    ( /\ C9_NoDuplicatesUnderInterleaving
      /\ \A c \in CallIds : calls[c].pc = "returned" /\ calls[c].status = "success" )
    => \A r1, r2 \in DOMAIN graphnode :
          ( /\ r1 # r2
            /\ graphnode[r1].sessionId = graphnode[r2].sessionId
            /\ graphnode[r1].embedding # <<>> /\ graphnode[r2].embedding # <<>> )
          => ( EdgeMatches(graphnode[r1].sessionId, graphnode[r1].nodeId,
                           graphnode[r2].nodeId) # {}
               <=> cosine_similarity(graphnode[r1].embedding, graphnode[r2].embedding)
                      >= SIMILARITY_THRESHOLD )

\* C32: once every process_transcript_chunk call on a session has returned
\* with success, however the calls interleaved, every two distinct entities
\* of the session that both have an embedding and whose similarity is at or
\* above the threshold are connected by an edge.
C32_LinkingComplete ==
    ( /\ \A c \in CallIds : calls[c].pc = "returned" /\ calls[c].status = "success"
      /\ \A r1, r2 \in DOMAIN graphnode :
            ( /\ graphnode[r1].sessionId = graphnode[r2].sessionId
              /\ graphnode[r1].nodeId = graphnode[r2].nodeId ) => r1 = r2 )
    => \A r1, r2 \in DOMAIN graphnode :
          ( /\ graphnode[r1].nodeId # graphnode[r2].nodeId
            /\ graphnode[r1].sessionId = graphnode[r2].sessionId
            /\ graphnode[r1].embedding # <<>> /\ graphnode[r2].embedding # <<>>
            /\ cosine_similarity(graphnode[r1].embedding, graphnode[r2].embedding)
                  >= SIMILARITY_THRESHOLD )
          => EdgeMatches(graphnode[r1].sessionId, graphnode[r1].nodeId,
                         graphnode[r2].nodeId) # {}

\* the calls whose extraction holds node_id
CallsThatExtracted(node_id) ==
    {c \in CallIds : \E k \in DOMAIN calls[c].entities : calls[c].entities[k].node_id = node_id}

\* the mentions of a row that precede the calls: 1 for a row none of them created
EarlierMentions(r) == IF graphnode[r].createdBy[1] \in CallIds THEN 0 ELSE 1

\* C33: mention_count is at least 1, and once every call has returned with
\* success (no embedding failed, each call extracted a node id at most once),
\* the mention_count of an entity has grown by one for every call that
\* extracted it, however the calls interleaved.
C33_NoLostIncrement ==
    /\ \A r \in DOMAIN graphnode : graphnode[r].mentionCount >= 1
    /\ ( /\ \A c \in CallIds :
               /\ calls[c].pc = "returned" /\ calls[c].status = "success"
               /\ calls[c].skipped = {}
               /\ \A k1, k2 \in DOMAIN calls[c].entities :
                     calls[c].entities[k1].node_id = calls[c].entities[k2].node_id => k1 = k2
         /\ \A r1, r2 \in DOMAIN graphnode :
               ( /\ graphnode[r1].sessionId = graphnode[r2].sessionId
                 /\ graphnode[r1].nodeId = graphnode[r2].nodeId ) => r1 = r2 )
       => \A r \in DOMAIN graphnode :
             graphnode[r].mentionCount
                = EarlierMentions(r) + Cardinality(CallsThatExtracted(graphnode[r].nodeId))

\* C18: when the embedding of an extracted entity fails, the step creates no
\* row, the call goes on with the next entity (or to its completion when
\* there is none) and its status does not become "error".
C18_EmbeddingFailureSkipsEntity ==
    [][ \A c \in CallIds :
          calls'[c].skipped # calls[c].skipped
          => /\ graphnode' = graphnode /\ graphedge' = graphedge
             /\ calls'[c].status = "running"
             /\ calls'[c].nodes_added = calls[c].nodes_added
             /\ IF calls[c].i < Len(calls[c].entities)
                THEN calls'[c].pc = "find_first" /\ calls'[c].i = calls[c].i + 1
                ELSE calls'[c].pc = "completed"
      ]_vars

\* a call has skipped its first entity, created a node for its second one,
\* and returned success
C18_Witness ==
    \E c \in CallIds :
        /\ calls[c].skipped = {1}
        /\ calls[c].status = "success"
        /\ \E r \in DOMAIN graphnode : graphnode[r].createdBy = <<c, 2>>

(***************************************************************************)
(*               ToolKGIntegration over the Neo4j graph store              *)
(*                                                                         *)
(* The voice agent's tool handlers start process_note_for_kg,              *)
(* process_concern_for_kg and process_progress_for_kg as tasks of their    *)
(* own.  The extractor, the embedding client and the Neo4j driver are      *)
(* synchronous, so a call runs from its start to its return without        *)
(* another call in between.                                                *)
(***************************************************************************)
KGSessions == {"s1"}

ConcernTypes == {"emotional_distress"}
ProgressTypes == {"coping_skill"}

\* emotion_map.get(concern_type, ...)
emotion_label(concern_type) ==
    CASE concern_type = "emotional_distress" -> "Distress"
      [] concern_type = "risk_behavior"      -> "Fear"
      [] concern_type = "deterioration"      -> "Sadness"
      [] concern_type = "crisis_indicator"   -> "Panic"

\* node_id = f"concern_{concern_type}"
concern_node_id(concern_type) ==
    CASE concern_type = "emotional_distress" -> "concern_emotional_distress"
      [] concern_type = "risk_behavior"      -> "concern_risk_behavior"
      [] concern_type = "deterioration"      -> "concern_deterioration"
      [] concern_type = "crisis_indicator"   -> "concern_crisis_indicator"

\* topic_map.get(progress_type, ...)
topic_label(progress_type) ==
    CASE progress_type = "emotional_regulation" -> "Emotional Control"
      [] progress_type = "insight_gained"       -> "Self-Awareness"
      [] progress_type = "behavioral_change"    -> "Behavior Change"
      [] progress_type = "coping_skill"         -> "Coping Strategies"

\* node_id = f"progress_{progress_type}"
progress_node_id(progress_type) ==
    CASE progress_type = "emotional_regulation" -> "progress_emotional_regulation"
      [] progress_type = "insight_gained"       -> "progress_insight_gained"
      [] progress_type = "behavioral_change"    -> "progress_behavioral_change"
      [] progress_type = "coping_skill"         -> "progress_coping_skill"

\* the lengths of the vectors the embedding model may return
ProviderDimensions == {EmbeddingDimension, 768}

\* the orders in which "ORDER BY e.pagerank DESC" may return the entities of
\* a session: any order of the entities whose pagerank is equal
Orders(ents, session_id) ==
    LET ks == {k \in DOMAIN ents : k[1] = session_id}
        n == Cardinality(ks)
    IN {o \in [1..n -> ks] :
          /\ \A x, y \in 1..n : x # y => o[x] # o[y]
          /\ \A x, y \in 1..n : x < y => ents[o[x]].pagerank >= ents[o[y]].pagerank}

\* get_session_entities, reduced to what the callers keep of each entity:
\* {"node_id": n['node_id'], "embedding": n['embedding']}
get_session_entities(ents, order) ==
    [x \in DOMAIN order |-> [node_id |-> order[x][2],
                             embedding |-> ents[order[x]].embedding.v]]

RefreshSourceOnly(ents, rels, session_id, node_id, related_id) ==
    update_weighted_degree(ents, rels, session_id, node_id).entities

\* update_weighted_degree(session_id, node_id);
\* update_weighted_degree(session_id, related_id)
RefreshEndpoints(ents, rels, session_id, node_id, related_id) ==
    update_weighted_degree(
        update_weighted_degree(ents, rels, session_id, node_id).entities,
        rels, session_id, related_id).entities

\* for related_id, score in related: create_similarity_edge, then
\* update_weighted_degree of the node and of the related node
RECURSIVE LinkRelated(_, _, _, _, _)
LinkRelated(ents, rels, session_id, node_id, related) ==
    IF related = <<>>
    THEN [entities |-> ents, relationships |-> rels]
    ELSE LET r == Head(related)
             rels1 == create_similarity_edge(ents, rels, session_id, node_id,
                                             r.node_id, r.score)
             ents2 == RefreshEndpoints(ents, rels1, session_id, node_id, r.node_id)
         IN LinkRelated(ents2, rels1, session_id, node_id, Tail(related))

NoToolCall == [op |-> "none", session_id |-> "none", node_ids |-> <<>>,
               skipped |-> {}, rejected |-> 0, raised |-> FALSE]

\* "for entity in entities" of process_note_for_kg, from entity i on.  st
\* holds the store, existing_node_data, the entities skipped for want of an
\* embedding, and the index of the entity whose upsert raised (0 when none
\* did: the exception ends the loop).
RECURSIVE NoteEntities(_, _, _, _, _, _)
NoteEntities(st, session_id, extracted, i, failing, dim) ==
    IF i > Len(extracted)
    THEN st
    ELSE LET entity == extracted[i]
             embedding == get_embedding(entity.label, i \in failing)
         IN IF embedding = <<>>
            THEN NoteEntities([st EXCEPT !.skipped = @ \cup {i}],
                              session_id, extracted, i + 1, failing, dim)
            ELSE LET up == create_or_update_entity(st.entities, session_id,
                               entity.node_id, entity.node_type, entity.label,
                               Embedding(dim, embedding), "From insight note")
                     node_data == [node_id |-> entity.node_id, embedding |-> embedding]
                     related == find_related_nodes(node_data, st.existing_node_data)
                     linked == LinkRelated(up.entities, st.relationships, session_id,
                                           entity.node_id, related)
                 IN IF up.raised
                    THEN [st EXCEPT !.rejected = i]
                    ELSE NoteEntities(
                            [st EXCEPT !.entities = linked.entities,
                                       !.relationships = linked.relationships,
                                       !.existing_node_data = Append(@, node_data)],
                            session_id, extracted, i + 1, failing, dim)

\* the mention counts stay within the bound explored
WithinMentions(ents) == \A k \in DOMAIN ents : ents[k].mention_count <= MaxMentions

\* process_note_for_kg.  Every exception is caught by "except Exception" and
\* logged: the call returns None whatever happened.
ProcessNoteForKg(session_id, note_content, response, failing, dim) ==
    LET extracted == extract(note_content, response)
    IN /\ toolCalls < MaxToolCalls
       /\ toolCalls' = toolCalls + 1
       /\ IF extracted = <<>>
          THEN /\ toolCall' = [NoToolCall EXCEPT !.op = "process_note_for_kg",
                                                 !.session_id = session_id]
               /\ UNCHANGED <<entities, relationships>>
          ELSE \E order \in Orders(entities, session_id) :
                  LET st == NoteEntities(
                               [entities |-> entities,
                                relationships |-> relationships,
                                existing_node_data |-> get_session_entities(entities, order),
                                skipped |-> {}, rejected |-> 0],
                               session_id, extracted, 1, failing, dim)
                  IN /\ WithinMentions(st.entities)
                     /\ entities' = st.entities
                     /\ relationships' = st.relationships
                     /\ toolCall' = [op |-> "process_note_for_kg",
                                     session_id |-> session_id,
                                     node_ids |-> [x \in DOMAIN extracted |->
                                                      extracted[x].node_id],
                                     skipped |-> st.skipped,
                                     rejected |-> st.rejected,
                                     raised |-> FALSE]

\* The body shared by process_concern_for_kg and process_progress_for_kg: the
\* embedding of the label, the upsert of the node, the entities of the
\* session read after it, and the edges to the related ones.  Every
\* exception is caught and logged.
ProcessNodeForKg(op, session_id, node_id, node_type, label, context, requestFails, dim) ==
    LET embedding == get_embedding(label, requestFails)
        up == create_or_update_entity(entities, session_id, node_id, node_type,
                                      label, Embedding(dim, embedding), context)
        call == [NoToolCall EXCEPT !.op = op, !.session_id = session_id,
                                   !.node_ids = <<node_id>>]
    IN /\ toolCalls < MaxToolCalls
       /\ toolCalls' = toolCalls + 1
       /\ IF embedding = <<>>
          THEN /\ toolCall' = [call EXCEPT !.skipped = {1}]
               /\ UNCHANGED <<entities, relationships>>
          ELSE IF up.raised
          THEN /\ toolCall' = [call EXCEPT !.rejected = 1]
               /\ UNCHANGED <<entities, relationships>>
          ELSE \E order \in Orders(up.entities, session_id) :
                  LET node_data == [node_id |-> node_id, embedding |-> embedding]
                      related == find_related_nodes(node_data,
                                    get_session_entities(up.entities, order))
                      linked == LinkRelated(up.entities, relationships, session_id,
                                            node_id, related)
                  IN /\ WithinMentions(linked.entities)
                     /\ entities' = linked.entities
                     /\ relationships' = linked.relationships
                     /\ toolCall' = call

ProcessConcernForKg(session_id, concern_type, requestFails, dim) ==
    ProcessNodeForKg("process_concern_for_kg", session_id,
                     concern_node_id(concern_type), "EMOTION",
                     emotion_label(concern_type), "Flagged concern", requestFails, dim)

ProcessProgressForKg(session_id, progress_type, requestFails, dim) ==
    ProcessNodeForKg("process_progress_for_kg", session_id,
                     progress_node_id(progress_type), "TOPIC",
                     topic_label(progress_type), "Progress milestone", requestFails, dim)

KGInit ==
    /\ toolCall = NoToolCall
    /\ toolCalls = 0

KGNext ==
    \/ \E s \in KGSessions, note_content \in Chunks, response \in Responses,
          failing \in SUBSET (1..2), dim \in ProviderDimensions :
          /\ ProcessNoteForKg(s, note_content, response, failing, dim)
          /\ UNCHANGED <<schedVars, builderVars, linkerVars, apiVars, restVars, lastOp, storeOps>>
    \/ \E s \in KGSessions, concern_type \in ConcernTypes, requestFails \in BOOLEAN,
          dim \in ProviderDimensions :
          /\ ProcessConcernForKg(s, concern_type, requestFails, dim)
          /\ UNCHANGED <<schedVars, builderVars, linkerVars, apiVars, restVars, lastOp, storeOps>>
    \/ \E s \in KGSessions, progress_type \in ProgressTypes, requestFails \in BOOLEAN,
          dim \in ProviderDimensions :
          /\ ProcessProgressForKg(s, progress_type, requestFails, dim)
          /\ UNCHANGED <<schedVars, builderVars, linkerVars, apiVars, restVars, lastOp, storeOps>>

(***************************************************************************)
(*                  Claims about the tool-call ingestion                   *)
(***************************************************************************)

\* C15: when the graph store rejects an upsert for the dimension of its
\* embedding, the ingestion call that made the upsert ends with that error
\* raised to its caller.
C15_DimensionErrorReachesCaller ==
    toolCall.rejected # 0 => toolCall.raised

C34_WeightedDegreeCurrent ==
    \A k \in DOMAIN entities :
        entities[k].weighted_degree
            = SumScores(relationships, Incident(relationships, k))

\* two ingestion calls have run, and an entity has two relationships, one
\* as source and one as target
C34_Witness ==
    /\ toolCalls >= 2
    /\ \E k \in DOMAIN entities :
          /\ entities[k].weighted_degree > 0
          /\ \E i, j \in DOMAIN relationships :
                /\ relationships[i].src = k /\ relationships[j].dst = k

(***************************************************************************)
(*                 The session lifecycle (api/sessions.py)                 *)
(*                                                                         *)
(* start_session, end_session and cancel_session are coroutines of one     *)
(* event loop: a request runs without interruption from one await to the   *)
(* next, and other requests run between its awaits.  A step below is the   *)
(* database request or broadcast a request was waiting for, followed by    *)
(* the code up to its next await.  pc names the await a request is at.     *)
(***************************************************************************)
\* requests explored in one behaviour
MaxRequests == 3

\* the patients of the therapist, and the patient ids a request may carry
Patients == {"p1"}
PatientIds == {"p1", "p2"}

\* the id db.session.create gives to a new row
NewSessionId == CHOOSE s \in Sessions \ DOMAIN session : TRUE

\* A request: its handler and arguments, its position and its history:
\*   session_id      the path parameter, or the id of the session created
\*   active_session  the row found by the ACTIVE lookup of start_session
\*   pending         the status of the broadcast it is about to send
\*   changed         the status changes it has made: <<session, new status>>
\*   sent            the session_update broadcasts it has sent
NewRequest(op, patient_id, session_id) ==
    [op |-> op, patient_id |-> patient_id, session_id |-> session_id,
     pc |-> IF op = "start_session" THEN "find_patient" ELSE "find_session",
     active_session |-> "none", pending |-> "none",
     changed |-> {}, sent |-> <<>>, status |-> "running"]

RequestIds == DOMAIN requests

\* the request ends: it returns, or raises the HTTPException code
Ended(req, outcome) == [req EXCEPT !.pc = "done", !.status = outcome]

\* history: the status change a write of status to row s makes
Change(s, status) ==
    IF session[s].status = status THEN {} ELSE {<<s, status>>}

\* a request arrives
ApiRequest(op, patient_id, session_id) ==
    /\ Len(requests) < MaxRequests
    /\ requests' = Append(requests, NewRequest(op, patient_id, session_id))
    /\ UNCHANGED <<session, schedVars>>

\* start_session: db.patient.find_first; 404 for a patient that is not the
\* therapist's
StartFindPatient(r) ==
    /\ requests[r].pc = "find_patient"
    /\ requests' = [requests EXCEPT ![r] =
                       IF requests[r].patient_id \in Patients
                       THEN [@ EXCEPT !.pc = "find_active"]
                       ELSE Ended(@, "404")]
    /\ UNCHANGED <<session, schedVars>>

\* start_session: db.session.find_first for an ACTIVE session of the patient
\* (any of them when there are several)
ActiveSessionsOf(patient_id) ==
    {s \in DOMAIN session :
        session[s].patientId = patient_id /\ session[s].status = "ACTIVE"}

StartFindActive(r, found) ==
    /\ requests[r].pc = "find_active"
    /\ IF ActiveSessionsOf(requests[r].patient_id) = {}
       THEN found = "none"
       ELSE found \in ActiveSessionsOf(requests[r].patient_id)
    /\ requests' = [requests EXCEPT ![r] =
                       [@ EXCEPT !.active_session = found,
                                 !.pc = IF found = "none" THEN "create" ELSE "auto_close"]]
    /\ UNCHANGED <<session, schedVars>>

\* the sessions the auto-close stops the background algorithms of
AutoCloseStopsNothing(active_session) == {}

AutoCloseStops(active_session) == {active_session}

\* start_session: db.session.update of the session found to COMPLETED, then
\* stop_background_algorithms for it
StartAutoClose(r) ==
    LET a == requests[r].active_session
    IN /\ requests[r].pc = "auto_close"
       /\ session' = [session EXCEPT ![a].status = "COMPLETED"]
       /\ IF a \in AutoCloseStops(a)
          THEN StopBackgroundAlgorithms(a)
          ELSE UNCHANGED schedVars
       /\ requests' = [requests EXCEPT ![r] =
                          [@ EXCEPT !.pc = "create",
                                    !.changed = @ \cup Change(a, "COMPLETED")]]

\* start_session: db.session.create, then start_background_algorithms for
\* the new session; the ACTIVE broadcast is next
StartCreate(r) ==
    /\ requests[r].pc = "create"
    /\ DOMAIN session # Sessions
    /\ LET id == NewSessionId
       IN /\ session' = [s \in DOMAIN session \cup {id} |->
                            IF s = id
                            THEN [patientId |-> requests[r].patient_id, status |-> "ACTIVE"]
                            ELSE session[s]]
          /\ StartBackgroundAlgorithms(id)
          /\ requests' = [requests EXCEPT ![r] =
                             [@ EXCEPT !.session_id = id,
                                       !.pc = "broadcast",
                                       !.pending = "ACTIVE",
                                       !.changed = @ \cup {<<id, "ACTIVE">>}]]

\* the status end_session and cancel_session write
FinalStatus(op) == IF op = "end_session" THEN "COMPLETED" ELSE "CANCELLED"

\* end_session, cancel_session: db.session.find_first by id, the status
\* checks, then stop_background_algorithms
FindSession(r) ==
    LET req == requests[r]
        s == req.session_id
    IN /\ req.pc = "find_session"
       /\ IF s \notin DOMAIN session
          THEN /\ requests' = [requests EXCEPT ![r] = Ended(@, "404")]
               /\ UNCHANGED schedVars
          ELSE IF req.op = "end_session" /\ session[s].status = "COMPLETED"
          THEN /\ requests' = [requests EXCEPT ![r] = Ended(@, "returned")]
               /\ UNCHANGED schedVars
          ELSE IF session[s].status # "ACTIVE"
          THEN /\ requests' = [requests EXCEPT ![r] = Ended(@, "400")]
               /\ UNCHANGED schedVars
          ELSE /\ StopBackgroundAlgorithms(s)
               /\ requests' = [requests EXCEPT ![r] = [@ EXCEPT !.pc = "update"]]
       /\ UNCHANGED session

\* end_session, cancel_session: db.session.update to the final status; the
\* broadcast of that status is next.  (end_session also queues the summary
\* task, which writes the summary fields of the row only.)
UpdateSession(r) ==
    LET req == requests[r]
        s == req.session_id
    IN /\ req.pc = "update"
       /\ session' = [session EXCEPT ![s].status = FinalStatus(req.op)]
       /\ requests' = [requests EXCEPT ![r] =
                          [@ EXCEPT !.pc = "broadcast",
                                    !.pending = FinalStatus(req.op),
                                    !.changed = @ \cup Change(s, FinalStatus(req.op))]]
       /\ UNCHANGED schedVars

\* realtime_service.broadcast_session_status(session_id, status), then the
\* response
BroadcastSessionStatus(r) ==
    /\ requests[r].pc = "broadcast"
    /\ requests' = [requests EXCEPT ![r] =
                       Ended([@ EXCEPT !.sent = Append(@, <<requests[r].session_id,
                                                            requests[r].pending>>)],
                             "returned")]
    /\ UNCHANGED <<session, schedVars>>

\* the database request or the emit a request is waiting for raises: no
\* handler catches it and the request ends with status 500
ApiRequestRaises(r) ==
    /\ requests[r].pc # "done"
    /\ requests' = [requests EXCEPT ![r] = Ended(@, "500")]
    /\ UNCHANGED <<session, schedVars>>

ApiInit ==
    /\ session = <<>>
    /\ requests = <<>>

ApiNext ==
    \/ \E patient_id \in PatientIds :
          /\ ApiRequest("start_session", patient_id, "none")
          /\ UNCHANGED <<neoVars, builderVars, kgVars, linkerVars, restVars>>
    \/ \E op \in {"end_session", "cancel_session"}, session_id \in Sessions :
          /\ ApiRequest(op, "none", session_id)
          /\ UNCHANGED <<neoVars, builderVars, kgVars, linkerVars, restVars>>
    \/ \E r \in RequestIds :
          StartFindPatient(r) /\ UNCHANGED <<neoVars, builderVars, kgVars, linkerVars, restVars>>
    \/ \E r \in RequestIds, found \in Sessions \cup {"none"} :
          StartFindActive(r, found) /\ UNCHANGED <<neoVars, builderVars, kgVars, linkerVars, restVars>>
    \/ \E r \in RequestIds :
          StartAutoClose(r) /\ UNCHANGED <<neoVars, builderVars, kgVars, linkerVars, restVars>>
    \/ \E r \in RequestIds :
          StartCreate(r) /\ UNCHANGED <<neoVars, builderVars, kgVars, linkerVars, restVars>>
    \/ \E r \in RequestIds :
          FindSession(r) /\ UNCHANGED <<neoVars, builderVars, kgVars, linkerVars, restVars>>
    \/ \E r \in RequestIds :
          UpdateSession(r) /\ UNCHANGED <<neoVars, builderVars, kgVars, linkerVars, restVars>>
    \/ \E r \in RequestIds :
          BroadcastSessionStatus(r) /\ UNCHANGED <<neoVars, builderVars, kgVars, linkerVars, restVars>>
    \/ \E r \in RequestIds :
          ApiRequestRaises(r) /\ UNCHANGED <<neoVars, builderVars, kgVars, linkerVars, restVars>>

(***************************************************************************)
(*                   Claims about the session lifecycle                    *)
(***************************************************************************)
\* the background tasks of tier created for session s so far
TasksOf(s, tier) == {t \in TaskIds : tasks[t].sid = s /\ tasks[t].tier = tier}

\* C24: start_background_algorithms is called exactly once for every session
\* start_session has created and for no other session, and for every session
\* that has left ACTIVE (by end_session, by cancel_session or by the
\* auto-close in start_session) stop_background_algorithms has been called.
C24_SchedulerCalledAtBoundaries ==
    \A s \in Sessions :
        /\ \A tier \in Tiers :
              Cardinality(TasksOf(s, tier)) = IF s \in DOMAIN session THEN 1 ELSE 0
        /\ (s \in DOMAIN session /\ session[s].status # "ACTIVE") => stopped(s)

\* a start_session request has auto-closed one session and created another,
\* which was cancelled afterwards
C24_Witness ==
    \E r \in RequestIds :
        /\ requests[r].op = "start_session"
        /\ requests[r].status = "returned"
        /\ requests[r].active_session \in DOMAIN session
        /\ session[requests[r].active_session].status = "COMPLETED"
        /\ session[requests[r].session_id].status = "CANCELLED"

\* C25: when a request has returned, each change of a session's status it
\* made (creation as ACTIVE, ACTIVE to COMPLETED or CANCELLED, the auto-close
\* included) was accompanied by one session-status broadcast for that
\* session carrying the new status.
C25_StatusChangeBroadcast ==
    \A r \in RequestIds :
        requests[r].status = "returned" =>
            \A change \in requests[r].changed :
                Occurrences(requests[r].sent, change) = 1

\* C35: a patient has at most one ACTIVE session at any time.
C35_OneActiveSessionPerPatient ==
    \A patient_id \in PatientIds : Cardinality(ActiveSessionsOf(patient_id)) <= 1

\* C36: a session that is COMPLETED or CANCELLED keeps that status.
C36_TerminalStatusIsFinal ==
    [][ \A s \in DOMAIN session :
          session[s].status \in {"COMPLETED", "CANCELLED"}
             => session'[s].status = session[s].status ]_vars

(***************************************************************************)
(* update_transcript (api/sessions.py).  The handler reads the session     *)
(* row, builds the new transcript from the transcript it read, writes it   *)
(* back and hands the text to GraphBuilder.process_transcript_chunk.  It   *)
(* suspends at each database request, so requests interleave there.  The   *)
(* rows of db.session outlive the process; the specification starts from   *)
(* one stored session s1, ACTIVE or COMPLETED, with an empty transcript.   *)
(***************************************************************************)
\* update_transcript requests explored in one behaviour
MaxUpdates == 2

\* transcript_data.text, as sequences of characters
Texts == { <<"h", "i">>, <<"o", "k">> }

\* current_transcript + "\n" + text if current_transcript else text
AppendFragment(current_transcript, text) ==
    IF current_transcript # <<>>
    THEN current_transcript \o <<"\n">> \o text
    ELSE text

\* the fragments of a transcript: str.split("\n") of a non-empty transcript
RECURSIVE Fragments(_)
Fragments(text) ==
    IF text = <<>>
    THEN <<>>
    ELSE LET breaks == {k \in DOMAIN text : text[k] = "\n"}
         IN IF breaks = {}
            THEN <<text>>
            ELSE LET k == CHOOSE b \in breaks : \A c \in breaks : b <= c
                 IN <<SubSeq(text, 1, k - 1)>> \o Fragments(SubSeq(text, k + 1, Len(text)))

NewUpdate(session_id, text) ==
    [session_id |-> session_id, text |-> text, pc |-> "find_session",
     updated_transcript |-> <<>>, status |-> "running"]

UpdateIds == DOMAIN updates

\* a request arrives
UpdateTranscript(session_id, text) ==
    /\ Len(updates) < MaxUpdates
    /\ updates' = Append(updates, NewUpdate(session_id, text))
    /\ UNCHANGED <<transcript, session, builderVars>>

\* db.session.find_first, the 404 and 400 checks, and updated_transcript
\* computed from the row that was read; db.session.update is next
TranscriptFind(u) ==
    LET req == updates[u]
        s == req.session_id
    IN /\ req.pc = "find_session"
       /\ updates' = [updates EXCEPT ![u] =
             IF s \notin DOMAIN session
             THEN Ended(@, "404")
             ELSE IF session[s].status # "ACTIVE"
             THEN Ended(@, "400")
             ELSE [@ EXCEPT !.pc = "update",
                            !.updated_transcript = AppendFragment(transcript[s], req.text)]]
       /\ UNCHANGED <<transcript, session, builderVars>>

\* db.session.update(where id, data transcript = updated_transcript);
\* process_transcript_chunk is next
TranscriptUpdate(u) ==
    LET req == updates[u]
    IN /\ req.pc = "update"
       /\ transcript' = [transcript EXCEPT ![req.session_id] = req.updated_transcript]
       /\ updates' = [updates EXCEPT ![u] = [@ EXCEPT !.pc = "process"]]
       /\ UNCHANGED <<session, builderVars>>

\* the replies of the chat completion that carry no entity
EmptyResponses == {response \in Responses : response.entities = <<>>}

\* result = await process_transcript_chunk(session_id, text), for a reply
\* without entities (the builder call returns at its first step); the
\* request returns the result, or ends with 500 when the builder raised
TranscriptProcess(u, response, emit) ==
    LET req == updates[u]
    IN /\ req.pc = "process"
       /\ ProcessTranscriptChunk(req.session_id, req.text, response, emit)
       /\ updates' = [updates EXCEPT ![u] =
             Ended(@, IF calls'[Len(calls')].status = "raised" THEN "500" ELSE "returned")]
       /\ UNCHANGED <<transcript, session>>

\* a database request of the handler raises: the request ends with 500
TranscriptRaises(u) ==
    /\ updates[u].pc \in {"find_session", "update"}
    /\ updates' = [updates EXCEPT ![u] = Ended(@, "500")]
    /\ UNCHANGED <<transcript, session, builderVars>>

TranscriptInit ==
    /\ transcript = [s \in Sessions |-> <<>>]
    /\ updates = <<>>

TranscriptNext ==
    \/ \E session_id \in Sessions, text \in Texts :
          /\ UpdateTranscript(session_id, text)
          /\ UNCHANGED <<schedVars, neoVars, kgVars, linkerVars, requests, wsVars, humeVars>>
    \/ \E u \in UpdateIds :
          /\ TranscriptFind(u)
          /\ UNCHANGED <<schedVars, neoVars, kgVars, linkerVars, requests, wsVars, humeVars>>
    \/ \E u \in UpdateIds :
          /\ TranscriptUpdate(u)
          /\ UNCHANGED <<schedVars, neoVars, kgVars, linkerVars, requests, wsVars, humeVars>>
    \/ \E u \in UpdateIds, response \in EmptyResponses, emit \in Broadcasts :
          /\ TranscriptProcess(u, response, emit)
          /\ UNCHANGED <<schedVars, neoVars, kgVars, linkerVars, requests, wsVars, humeVars>>
    \/ \E u \in UpdateIds :
          /\ TranscriptRaises(u)
          /\ UNCHANGED <<schedVars, neoVars, kgVars, linkerVars, requests, wsVars, humeVars>>

\* the number of fragments of a transcript equal to text
FragmentCount(stored, text) ==
    Cardinality({k \in DOMAIN Fragments(stored) : Fragments(stored)[k] = text})

\* C37: when every update_transcript request has returned successfully,
\* the stored transcript of a session holds each fragment as many times as
\* it was submitted for that session (once per request).
C37_NoFragmentLost ==
    (\A u \in UpdateIds : updates[u].pc = "done" /\ updates[u].status = "returned")
    => \A s \in DOMAIN session, text \in Texts :
          FragmentCount(transcript[s], text) =
             Cardinality({u \in UpdateIds : updates[u].session_id = s /\ updates[u].text = text})

(***************************************************************************)
(* WebSocketManager (websocket/handlers.py), driven by the Socket.IO       *)
(* events of main.py.  The server gives every connection a fresh sid,      *)
(* raises connect first and disconnect last, and runs every event handler  *)
(* as a task of its own.  connect, disconnect and leave_session never      *)
(* suspend; join_session suspends at its database lookup, so the other     *)
(* handlers run between its two halves.                                    *)
(***************************************************************************)
\* join_session events explored in one behaviour
MaxJoins == 3

Sids == {"c1", "c2"}

\* the entries of a dict, without key k
Without(dict, k) == [x \in DOMAIN dict \ {k} |-> dict[x]]

\* dict[k].discard(v), then "del dict[k]" when the set is left empty
DiscardFrom(dict, k, v) ==
    IF k \notin DOMAIN dict
    THEN dict
    ELSE IF dict[k] \ {v} = {}
    THEN Without(dict, k)
    ELSE [dict EXCEPT ![k] = @ \ {v}]

\* the connect event: client_sessions[sid] = set()
Connect(sid) ==
    /\ sockets[sid] = "new"
    /\ sockets' = [sockets EXCEPT ![sid] = "connected"]
    /\ client_sessions' = [x \in DOMAIN client_sessions \cup {sid} |->
                              IF x = sid THEN {} ELSE client_sessions[x]]
    /\ UNCHANGED <<session_clients, joins>>

\* the disconnect event: sid leaves the client set of every session it is
\* subscribed to, and its own entry is deleted
Disconnect(sid) ==
    /\ sockets[sid] = "connected"
    /\ sockets' = [sockets EXCEPT ![sid] = "disconnected"]
    /\ IF sid \in DOMAIN client_sessions
       THEN /\ session_clients' =
                  [s \in {x \in DOMAIN session_clients :
                             x \in client_sessions[sid] => session_clients[x] \ {sid} # {}} |->
                      IF s \in client_sessions[sid]
                      THEN session_clients[s] \ {sid}
                      ELSE session_clients[s]]
            /\ client_sessions' = Without(client_sessions, sid)
       ELSE UNCHANGED <<client_sessions, session_clients>>
    /\ UNCHANGED joins

\* the join_session event of a connected client: the call is made and
\* waits for db.session.find_unique
JoinSession(sid, session_id) ==
    /\ sockets[sid] = "connected"
    /\ Len(joins) < MaxJoins
    /\ joins' = Append(joins, [sid |-> sid, session_id |-> session_id,
                               pc |-> "find_unique", result |-> "none"])
    /\ UNCHANGED <<client_sessions, session_clients, sockets>>

JoinIds == DOMAIN joins

\* the lookup has answered: False for no session, else both indexes are
\* written and the call returns True
JoinLookedUp(j, found) ==
    LET sid == joins[j].sid
        session_id == joins[j].session_id
    IN /\ joins[j].pc = "find_unique"
       /\ IF ~found
          THEN /\ joins' = [joins EXCEPT ![j] = [@ EXCEPT !.pc = "done", !.result = "False"]]
               /\ UNCHANGED <<client_sessions, session_clients>>
          ELSE /\ client_sessions' =
                     IF sid \in DOMAIN client_sessions
                     THEN [client_sessions EXCEPT ![sid] = @ \cup {session_id}]
                     ELSE client_sessions
               /\ session_clients' =
                     [s \in DOMAIN session_clients \cup {session_id} |->
                         IF s = session_id
                         THEN (IF s \in DOMAIN session_clients
                               THEN session_clients[s] ELSE {}) \cup {sid}
                         ELSE session_clients[s]]
               /\ joins' = [joins EXCEPT ![j] = [@ EXCEPT !.pc = "done", !.result = "True"]]
       /\ UNCHANGED sockets

\* the lookup raises: the exception leaves join_session
JoinRaises(j) ==
    /\ joins[j].pc = "find_unique"
    /\ joins' = [joins EXCEPT ![j] = [@ EXCEPT !.pc = "done", !.result = "raised"]]
    /\ UNCHANGED <<client_sessions, session_clients, sockets>>

\* the leave_session event of a connected client
LeaveSession(sid, session_id) ==
    /\ sockets[sid] = "connected"
    /\ client_sessions' =
          IF sid \in DOMAIN client_sessions
          THEN [client_sessions EXCEPT ![sid] = @ \ {session_id}]
          ELSE client_sessions
    /\ session_clients' = DiscardFrom(session_clients, session_id, sid)
    /\ UNCHANGED <<sockets, joins>>

WsInit ==
    /\ client_sessions = <<>>
    /\ session_clients = <<>>
    /\ sockets = [sid \in Sids |-> "new"]
    /\ joins = <<>>

WsNext ==
    \/ \E sid \in Sids :
          /\ Connect(sid)
          /\ UNCHANGED <<schedVars, neoVars, builderVars, kgVars, linkerVars, apiVars,
                         transcriptVars, humeVars>>
    \/ \E sid \in Sids :
          /\ Disconnect(sid)
          /\ UNCHANGED <<schedVars, neoVars, builderVars, kgVars, linkerVars, apiVars,
                         transcriptVars, humeVars>>
    \/ \E sid \in Sids, session_id \in Sessions :
          /\ JoinSession(sid, session_id)
          /\ UNCHANGED <<schedVars, neoVars, builderVars, kgVars, linkerVars, apiVars,
                         transcriptVars, humeVars>>
    \/ \E j \in JoinIds, found \in BOOLEAN :
          /\ JoinLookedUp(j, found)
          /\ UNCHANGED <<schedVars, neoVars, builderVars, kgVars, linkerVars, apiVars,
                         transcriptVars, humeVars>>
    \/ \E j \in JoinIds :
          /\ JoinRaises(j)
          /\ UNCHANGED <<schedVars, neoVars, builderVars, kgVars, linkerVars, apiVars,
                         transcriptVars, humeVars>>
    \/ \E sid \in Sids, session_id \in Sessions :
          /\ LeaveSession(sid, session_id)
          /\ UNCHANGED <<schedVars, neoVars, builderVars, kgVars, linkerVars, apiVars,
                         transcriptVars, humeVars>>

\* C39: the two indexes agree (sid is a client of session s exactly when s
\* is a session of client sid), no session has an empty client set, and a
\* disconnected client is in no session's client set.
C39_IndexesConsistent ==
    /\ \A sid \in Sids, s \in Sessions :
          (s \in DOMAIN session_clients /\ sid \in session_clients[s])
          <=> (sid \in DOMAIN client_sessions /\ s \in client_sessions[sid])
    /\ \A s \in DOMAIN session_clients : session_clients[s] # {}
    /\ \A sid \in Sids :
          sockets[sid] = "disconnected"
          => \A s \in DOMAIN session_clients : sid \notin session_clients[s]

(***************************************************************************)
(* HumeService.queue_context_update (voice_agent/services/hume_service.py) *)
(* receive_from_hume creates one task per user message.  A task records    *)
(* the pending update, sleeps for the debounce delay, then tests the       *)
(* pending update and injects.  All tasks sleep for the same delay, so     *)
(* they wake in the order in which they started.                           *)
(***************************************************************************)
\* user messages explored in one behaviour
MaxMessages == 3

\* the session the service is attached to
HumeSessions == {"s1"}

\* pending_context_update = None
None == <<>>

\* A task: its argument, its position, the time it recorded, and history:
\*   superseded  a later task had started when this one woke
\*   injected    what became of its inject_context_update ("none": not called)
NewContextCall(session_id, now) ==
    [session_id |-> session_id, pc |-> "sleep", time |-> now,
     superseded |-> FALSE, injected |-> "none", status |-> "running"]

ContextCallIds == DOMAIN contextCalls

\* queue_context_update up to "await asyncio.sleep": the pending update is
\* (session_id, datetime.now()); the clock is the number of the message
QueueContextUpdate(session_id) ==
    LET now == Len(contextCalls) + 1
    IN /\ Len(contextCalls) < MaxMessages
       /\ pending_context_update' = <<session_id, now>>
       /\ contextCalls' = Append(contextCalls, NewContextCall(session_id, now))

\* the test after the sleep, as the code writes it; it subscripts the
\* pending update, which raises TypeError when that is None
NoNewUpdate(session_id) ==
    pending_context_update = <<session_id, pending_context_update[2]>>

\* the sleep is over.  The test raises, or fails, or inject_context_update
\* is called: it returns at once without a websocket, else it waits in
\* hume_ws.send
ContextWake(c, connected) ==
    LET f == contextCalls[c]
        g == [f EXCEPT !.superseded = c < Len(contextCalls)]
    IN /\ f.pc = "sleep"
       /\ \A d \in ContextCallIds : d < c => contextCalls[d].pc # "sleep"
       /\ IF pending_context_update = None
          THEN /\ contextCalls' = [contextCalls EXCEPT ![c] =
                     [g EXCEPT !.pc = "done", !.status = "raised"]]
               /\ UNCHANGED pending_context_update
          ELSE IF ~NoNewUpdate(f.session_id)
          THEN /\ contextCalls' = [contextCalls EXCEPT ![c] =
                     [g EXCEPT !.pc = "done", !.status = "returned"]]
               /\ UNCHANGED pending_context_update
          ELSE IF ~connected
          THEN /\ contextCalls' = [contextCalls EXCEPT ![c] =
                     [g EXCEPT !.pc = "done", !.status = "returned",
                               !.injected = "not_connected"]]
               /\ pending_context_update' = None
          ELSE /\ contextCalls' = [contextCalls EXCEPT ![c] = [g EXCEPT !.pc = "send"]]
               /\ UNCHANGED pending_context_update

\* hume_ws.send is over (an exception of send is logged and swallowed);
\* then pending_context_update = None
ContextSent(c, sendRaises) ==
    /\ contextCalls[c].pc = "send"
    /\ contextCalls' = [contextCalls EXCEPT ![c] =
          [@ EXCEPT !.pc = "done", !.status = "returned",
                    !.injected = IF sendRaises THEN "send_raised" ELSE "sent"]]
    /\ pending_context_update' = None

HumeInit ==
    /\ pending_context_update = None
    /\ contextCalls = <<>>

HumeNext ==
    \/ \E session_id \in HumeSessions :
          /\ QueueContextUpdate(session_id)
          /\ UNCHANGED <<schedVars, neoVars, builderVars, kgVars, linkerVars, apiVars,
                         transcriptVars, wsVars>>
    \/ \E c \in ContextCallIds, connected \in BOOLEAN :
          /\ ContextWake(c, connected)
          /\ UNCHANGED <<schedVars, neoVars, builderVars, kgVars, linkerVars, apiVars,
                         transcriptVars, wsVars>>
    \/ \E c \in ContextCallIds, sendRaises \in BOOLEAN :
          /\ ContextSent(c, sendRaises)
          /\ UNCHANGED <<schedVars, neoVars, builderVars, kgVars, linkerVars, apiVars,
                         transcriptVars, wsVars>>

\* C40: of the tasks of a burst only the last injects.  A task that was
\* superseded while it slept sends no context update, a task that was not
\* calls inject_context_update, and no task ends with an exception.
C40_Debounced ==
    \A c \in ContextCallIds :
        contextCalls[c].pc = "done"
        => /\ contextCalls[c].status # "raised"
           /\ contextCalls[c].superseded => contextCalls[c].injected # "sent"
           /\ ~contextCalls[c].superseded => contextCalls[c].injected # "none"

\* one stored session, with no request of any kind under way
TranscriptInputs ==
    /\ SchedInit /\ StoreInit /\ BuilderInit /\ KGInit /\ LinkerInit
    /\ TranscriptInit /\ WsInit /\ HumeInit
    /\ requests = <<>>
    /\ \E status \in {"ACTIVE", "COMPLETED"} :
          session = [s \in {"s1"} |-> [patientId |-> "p1", status |-> status]]

RestInit == TranscriptInit /\ WsInit /\ HumeInit

Init == SchedInit /\ StoreInit /\ BuilderInit /\ KGInit /\ LinkerInit /\ ApiInit /\ RestInit

IsolationSpec == Init /\ [][IsolationNext]_vars
SchedFairSpec == Init /\ [][SchedNext]_vars /\ TaskFairness
SchedSpec == Init /\ [][SchedNext]_vars

StoreSpec == Init /\ [][StoreNext]_vars

BuilderSpec == Init /\ [][BuilderNext]_vars

PipelineSpec == Init /\ [][PipelineNext]_vars

\* concurrent calls on a session that already holds a node
MentionInputs ==
    /\ SchedInit /\ StoreInit /\ MentionInit /\ KGInit /\ LinkerInit /\ ApiInit /\ RestInit

MentionSpec == MentionInputs /\ [][BuilderNext]_vars

KGSpec == Init /\ [][KGNext]_vars
EdgeSpec == Init /\ [][EdgeNext]_vars
MetricsSpec == Init /\ [][MetricsNext]_vars

\* cosine_similarity applied to every pair of vectors
LinkerInputs ==
    /\ SchedInit /\ StoreInit /\ BuilderInit /\ KGInit /\ ApiInit /\ RestInit
    /\ \E a, b \in Vectors : cosineCall = CosineArguments(a, b)
LinkerSpec == LinkerInputs /\ [][LinkerNext]_vars
TranscriptSpec == TranscriptInputs /\ [][TranscriptNext]_vars

WsSpec == Init /\ [][WsNext]_vars

HumeSpec == Init /\ [][HumeNext]_vars

ApiSpec == Init /\ [][ApiNext]_vars

=============================================================================
